---------------------------- MODULE Spec2Model ----------------------------
(***************************************************************************)
(* A model of the rlottie scene model, src/src/lottie/lottiemodel.h.       *)
(*                                                                         *)
(* Spec      Property<float> / KeyFrames<float>: construction of a         *)
(*           keyframe track and the per-frame queries value, angle,        *)
(*           changed, cache, and move construction.                        *)
(* SpecPath  PathData::lerp / PathData::toPath on a pair of keyframe       *)
(*           paths.                                                        *)
(* SpecTrim  Trim::segment on a Trim node.                                 *)
(*                                                                         *)
(* SpecGrad  operator+ and operator- on Gradient::Data.                    *)
(* SpecText  TextLayerData::getTextData on a text layer.                   *)
(* SpecUnicode  Unicode::convertToUnicode and Unicode::setUtf8Text.        *)
(* SpecFont  FontDB::load on a font table and a glyph table.               *)
(* SpecObject  Object::setName, Object::name and the destructor.           *)
(* SpecPathAny  SpecPath on paths of any point count.                      *)
(* SpecRepeater  Repeater::copies and Repeater::maxCopies.                 *)
(* SpecWeight  the weight of a text animator for one character.            *)
(* SpecThreads  evaluation queries on a built model by several threads.    *)
(* SpecLayer  Layer::extra, the read accessors and Layer::timeRemap.       *)
(*                                                                         *)
(* In Spec, SpecPath and SpecTrim floats are modelled by exact rational    *)
(* arithmetic: a value is an integer, or a record [n, d] standing for n/d  *)
(* with d > 0, and the rounding of IEEE floats is outside the model.  In   *)
(* SpecGrad a float is an integer with at most MantissaBits significant    *)
(* bits and every operation rounds to nearest, ties to even.               *)
(***************************************************************************)
EXTENDS Integers, Sequences, FiniteSets, TLC

VARIABLES
    prop,     \* the Property<float> under construction / evaluation
    from,     \* the source object left behind by the last move construction
    op,       \* the last Property operation, its arguments and its result
    kf,       \* a path keyframe: its start and end PathData
    vpath,    \* the caller-supplied VPath buffer and what was written to it
    trim,     \* a Trim node: the values of mStart, mEnd, mOffset
    seg,      \* the last Trim::segment call and its result
    grad,     \* two Gradient::Data operands
    gop,      \* the last Gradient::Data operator call and its result
    tlayer,   \* a TextLayerData: its documents and its animators
    tdata,    \* the TextData filled by the last getTextData call
    uni,      \* a Unicode object: mUtf8Text, mUnicodeText, mUnicodeLength
    uop,      \* the last Unicode call, its input and its outcome
    fontdb,   \* a FontDB: mFonts and mChars
    fop,      \* the last FontDB::load call and its result
    object,   \* an Object: the union of mData and mPtr, and the heap
    oop,      \* the last Object call and its result
    lnode,    \* a Layer, its extra block and its owning Composition
    lop,      \* the last Layer call and its result
    shared,   \* the nodes several threads query
    threads,  \* each thread's query, its position in it and its locals
    repeater, \* a Repeater: mCopies and mMaxCopies
    rop,      \* the last Repeater call and its result
    selector, \* the range of a selector in character indexes
    wop       \* the last classification of a character and its weight

vars == <<prop, from, op, kf, vpath, trim, seg, grad, gop, tlayer, tdata,
          uni, uop, fontdb, fop, object, oop, lnode, lop, shared, threads,
          repeater, rop, selector, wop>>

propVars == <<prop, from, op>>
pathVars == <<kf, vpath>>
trimVars == <<trim, seg>>
gradVars == <<grad, gop>>
textVars == <<tlayer, tdata>>
uniVars  == <<uni, uop>>
fontVars == <<fontdb, fop>>
objVars  == <<object, oop>>
layerVars == <<lnode, lop>>
threadVars == <<shared, threads>>
repeaterVars == <<repeater, rop>>
weightVars == <<selector, wop>>
newerVars == <<layerVars, threadVars, repeaterVars, weightVars>>

\* the variables each specification leaves alone
propOthers == <<pathVars, trimVars, gradVars, textVars, uniVars, fontVars, objVars,
               newerVars>>
pathOthers == <<propVars, trimVars, gradVars, textVars, uniVars, fontVars, objVars,
               newerVars>>
trimOthers == <<propVars, pathVars, gradVars, textVars, uniVars, fontVars, objVars,
               newerVars>>
gradOthers == <<propVars, pathVars, trimVars, textVars, uniVars, fontVars, objVars,
               newerVars>>
textOthers == <<propVars, pathVars, trimVars, gradVars, uniVars, fontVars, objVars,
               newerVars>>
uniOthers  == <<propVars, pathVars, trimVars, gradVars, textVars, fontVars, objVars,
               newerVars>>
fontOthers == <<propVars, pathVars, trimVars, gradVars, textVars, uniVars, objVars,
               newerVars>>
objOthers  == <<propVars, pathVars, trimVars, gradVars, textVars, uniVars, fontVars,
               newerVars>>
olderVars == <<propVars, pathVars, trimVars, gradVars, textVars, uniVars, fontVars,
               objVars>>
layerOthers == <<olderVars, threadVars, repeaterVars, weightVars>>
threadOthers == <<olderVars, layerVars, repeaterVars, weightVars>>
repeaterOthers == <<olderVars, layerVars, threadVars, weightVars>>
weightOthers == <<olderVars, layerVars, threadVars, repeaterVars>>

(***************************************************************************)
(* Bounds of the model.                                                    *)
(***************************************************************************)
\* most segments of a keyframe track
MaxSegs == 2
\* start frame of the first segment of a track
FirstStart == 2
\* lengths (in frames) a segment may have
Lens == {1, 2}
\* start and end values of a segment (float values, distinct from the
\* value-initialised float 0)
Values == {1, 3}
\* frame numbers that are queried: before, inside and after every track
Frames == 0 .. (FirstStart + 2 * MaxSegs + 1)
\* most cubic segments of a keyframe path
MaxCubics == 2
\* most points of a keyframe path filled in by hand
MaxPoints == 5
\* the interpolation factors of PathData::lerp are 0, 1/TDen, ..., 1
TDen == 2
\* trim offsets range over [-MaxTurns, MaxTurns] full turns
MaxTurns == 2
\* trim start and end percentages
Percents == {0, 10, 25, 50, 75, 90, 100}
\* trim offsets in degrees, in steps of 18: 36 degrees are 10% of the path
Offsets == {18 * i : i \in (-20 * MaxTurns) .. (20 * MaxTurns)}
\* the keyframe paths: a move-to point and whole cubics (3k+1 points), or
\* no point at all; the points of a path are distinct and differ from path
\* to path
PointCounts == {0} \cup {3 * k + 1 : k \in 0 .. MaxCubics}
PathBases == {0, 1, 3}
\* what a read past the end of mPoints may yield
Garbage == {<<50, 50>>, <<60, 70>>}

(***************************************************************************)
(* Rational numbers n/d, d > 0.                                            *)
(***************************************************************************)
Rat(n, d) == [n |-> n, d |-> d]
RatOf(i) == Rat(i, 1)
RatEq(a, b) == a.n * b.d = b.n * a.d
RatLt(a, b) == a.n * b.d < b.n * a.d
RatLe(a, b) == a.n * b.d <= b.n * a.d

(***************************************************************************)
(* VInterpolator::value: the easing curve of a segment, a map of [0,1] to   *)
(* itself that keeps 0 and 1.  The curve "easeIn" is x^2, so that the      *)
(* eased progress differs from the fraction handed to the curve; any other *)
(* name is the linear curve.                                               *)
(***************************************************************************)
NoInterpolator == "nullptr"
Interpolators == {"easeIn"}

InterpolatorValue(curve, x) ==
    IF curve = "easeIn" THEN Rat(x.n * x.n, x.d * x.d) ELSE x

(***************************************************************************)
(* lerp(start, end, t) = start + t * (end - start), lines 52-56.           *)
(***************************************************************************)
lerp(start, end, t) == Rat(start * t.d + t.n * (end - start), t.d)

(***************************************************************************)
(* Value<T>::at, line 170.                                                 *)
(***************************************************************************)
ValueAt(value, t) == lerp(value.start_, value.end_, t)

\* Value<T>::angle for a value that is no Position, line 171
ValueAngle(value, t) == 0

(***************************************************************************)
(* KeyFrames::Frame, lines 229-246.                                        *)
(***************************************************************************)
Frame(s, e, i, vs, ve) ==
    [start_ |-> s, end_ |-> e, interpolator_ |-> i,
     value_ |-> [start_ |-> vs, end_ |-> ve]]

\* the fraction (frameNo - start_) / (end_ - start_) handed to the curve
FrameFraction(frame, frameNo) ==
    Rat(frameNo - frame.start_, frame.end_ - frame.start_)

FrameProgressLinearWithoutCurve(frame, frameNo) ==
    IF frame.interpolator_ # NoInterpolator
    THEN InterpolatorValue(frame.interpolator_, FrameFraction(frame, frameNo))
    ELSE FrameFraction(frame, frameNo)

FrameProgress(frame, frameNo) ==
    IF frame.interpolator_ # NoInterpolator
    THEN InterpolatorValue(frame.interpolator_, FrameFraction(frame, frameNo))
    ELSE Rat(0, 1)

FrameValue(frame, frameNo) == ValueAt(frame.value_, FrameProgress(frame, frameNo))

FrameAngle(frame, frameNo) == ValueAngle(frame.value_, FrameProgress(frame, frameNo))

(***************************************************************************)
(* KeyFrames::value, lines 248-259.  The result records, besides the       *)
(* value, which return statement produced it and the segment the loop      *)
(* selected (0 when no segment was evaluated).                             *)
(***************************************************************************)
front(frames_) == frames_[1]
back(frames_) == frames_[Len(frames_)]

InFrameLate(frame, frameNo) == frameNo > frame.start_ /\ frameNo <= frame.end_

\* the loop's test, line 255
InFrame(frame, frameNo) == frameNo >= frame.start_ /\ frameNo < frame.end_

\* the first segment, in list order, that passes the loop's test; 0 if none
LoopSegment(frames_, frameNo) ==
    IF \E k \in 1 .. Len(frames_) : InFrame(frames_[k], frameNo)
    THEN CHOOSE k \in 1 .. Len(frames_) :
            /\ InFrame(frames_[k], frameNo)
            /\ \A j \in 1 .. (k - 1) : ~InFrame(frames_[j], frameNo)
    ELSE 0

Result(v, how, k) == [value |-> v, by |-> how, seg |-> k]

KeyFramesValueBackStart(frames_, frameNo) ==
    IF front(frames_).start_ >= frameNo
    THEN Result(RatOf(front(frames_).value_.start_), "front", 0)
    ELSE IF back(frames_).end_ <= frameNo
    THEN Result(RatOf(back(frames_).value_.start_), "back", 0)
    ELSE LET k == LoopSegment(frames_, frameNo)
         IN  IF k # 0
             THEN Result(FrameValue(frames_[k], frameNo), "loop", k)
             ELSE Result(RatOf(0), "default", 0)

KeyFramesValue(frames_, frameNo) ==
    IF front(frames_).start_ >= frameNo
    THEN Result(RatOf(front(frames_).value_.start_), "front", 0)
    ELSE IF back(frames_).end_ <= frameNo
    THEN Result(RatOf(back(frames_).value_.end_), "back", 0)
    ELSE LET k == LoopSegment(frames_, frameNo)
         IN  IF k # 0
             THEN Result(FrameValue(frames_[k], frameNo), "loop", k)
             ELSE Result(RatOf(0), "default", 0)

(***************************************************************************)
(* KeyFrames::angle, lines 261-272.                                        *)
(***************************************************************************)
KeyFramesAngle(frames_, frameNo) ==
    IF front(frames_).start_ >= frameNo \/ back(frames_).end_ <= frameNo
    THEN 0
    ELSE LET k == LoopSegment(frames_, frameNo)
         IN  IF k # 0 THEN FrameAngle(frames_[k], frameNo) ELSE 0

(***************************************************************************)
(* KeyFrames::changed, lines 274-281.                                      *)
(***************************************************************************)
KeyFramesChangedInRange(frames_, prevFrame, curFrame) ==
    LET first == front(frames_).start_
        last == back(frames_).end_
    IN  \/ (first <= prevFrame /\ prevFrame <= last)
        \/ (first <= curFrame /\ curFrame <= last)

KeyFramesChangedEither(frames_, prevFrame, curFrame) ==
    LET first == front(frames_).start_
        last == back(frames_).end_
    IN  ~(\/ (first > prevFrame \/ first > curFrame)
          \/ (last < prevFrame \/ last < curFrame))

KeyFramesChanged(frames_, prevFrame, curFrame) ==
    LET first == front(frames_).start_
        last == back(frames_).end_
    IN  ~(\/ (first > prevFrame /\ first > curFrame)
          \/ (last < prevFrame /\ last < curFrame))

(***************************************************************************)
(* Property<T>, lines 291-406.  impl_ is a union: `active` names the       *)
(* member that is constructed; the other member holds no object.  The      *)
(* unique_ptr animation_ is NullPtr or owns a KeyFrames object.            *)
(***************************************************************************)
NullPtr == [null |-> TRUE, frames_ |-> <<>>]
Animation(frames_) == [null |-> FALSE, frames_ |-> frames_]
NoValue == 0

Impl(active, value_, animation_) ==
    [active |-> active, value_ |-> value_, animation_ |-> animation_]

\* Property(T value), line 297
PropertyCtor(value) ==
    [isValue_ |-> TRUE, impl_ |-> Impl("value_", value, NullPtr)]

\* isStatic, line 335
isStatic(p) == p.isValue_

\* the mutable animation(), lines 302-310: the object after the call
PropertyAnimation(p) ==
    IF p.isValue_
    THEN [isValue_ |-> FALSE,
          impl_ |-> Impl("animation_", NoValue, Animation(<<>>))]
    ELSE p

MovedKeepsDefaultFlag(other) ==
    IF ~other.isValue_
    THEN [isValue_ |-> TRUE,
          impl_ |-> Impl("animation_", NoValue, other.impl_.animation_)]
    ELSE [isValue_ |-> TRUE,
          impl_ |-> Impl("value_", other.impl_.value_, NullPtr)]

\* Property(Property &&other), lines 318-327: the new object
Moved(other) ==
    IF ~other.isValue_
    THEN [isValue_ |-> FALSE,
          impl_ |-> Impl("animation_", NoValue, other.impl_.animation_)]
    ELSE [isValue_ |-> TRUE,
          impl_ |-> Impl("value_", other.impl_.value_, NullPtr)]

\* Property(Property &&other): the source object after the move
MovedFrom(other) ==
    IF ~other.isValue_
    THEN [other EXCEPT !.impl_.animation_ = NullPtr]
    ELSE other

\* value(int frameNo), lines 337-340
PropertyValue(p, frameNo) ==
    IF isStatic(p)
    THEN Result(RatOf(p.impl_.value_), "static", 0)
    ELSE KeyFramesValue(p.impl_.animation_.frames_, frameNo)

\* angle(int frameNo), lines 365-368
PropertyAngle(p, frameNo) ==
    IF isStatic(p) THEN 0 ELSE KeyFramesAngle(p.impl_.animation_.frames_, frameNo)

\* changed(int prevFrame, int curFrame), lines 370-373
PropertyChanged(p, prevFrame, curFrame) ==
    IF isStatic(p)
    THEN FALSE
    ELSE KeyFramesChanged(p.impl_.animation_.frames_, prevFrame, curFrame)

\* a query dereferences animation_ and takes frames_.front(): the object
\* must be static, or own a track with at least one segment
Evaluable(p) ==
    \/ p.isValue_
    \/ (~p.impl_.animation_.null /\ Len(p.impl_.animation_.frames_) > 0)

(***************************************************************************)
(* PathData, lines 114-164: mPoints and mClosed.  A point is <<x, y>>.     *)
(* A VPath is modelled by what is written to it: the points of its moveTo  *)
(* and cubicTo calls, with rational coordinates, and whether close() was   *)
(* called.  `oob` records a read of mPoints at an index past its end; such *)
(* a read yields the point g.                                              *)
(***************************************************************************)
PathData(points, closed) == [mPoints |-> points, mClosed |-> closed]

RatPoint(p) == <<RatOf(p[1]), RatOf(p[2])>>

\* start + t * (end - start) on points, lines 133-141
PointLerp(a, b, t) == <<lerp(a[1], b[1], t), lerp(a[2], b[2], t)>>

PointAt(points, i, g) == IF i <= Len(points) THEN points[i] ELSE g

VPath(points, closed, oob) == [points |-> points, closed |-> closed, oob |-> oob]

\* VPath::reset
EmptyVPath == VPath(<<>>, FALSE, FALSE)

\* the 1-based indices the loop `for (i = 1; i < size; i += 3)` reads:
\* i + 1, i + 2, i + 3 for every i it runs with
Cubics(size) == IF size <= 1 THEN 0 ELSE ((size - 2) \div 3) + 1

PathLerpEndClosed(start, end, t, g) ==
    IF Len(start.mPoints) = 0 \/ Len(end.mPoints) = 0
    THEN EmptyVPath
    ELSE LET size == IF Len(start.mPoints) < Len(end.mPoints)
                     THEN Len(start.mPoints) ELSE Len(end.mPoints)
             n == 1 + 3 * Cubics(size)
         IN  VPath([i \in 1 .. n |->
                        PointLerp(PointAt(start.mPoints, i, g),
                                  PointAt(end.mPoints, i, g), t)],
                   end.mClosed,
                   n > Len(start.mPoints) \/ n > Len(end.mPoints))

\* PathData::lerp, lines 118-144
PathLerp(start, end, t, g) ==
    IF Len(start.mPoints) = 0 \/ Len(end.mPoints) = 0
    THEN EmptyVPath
    ELSE LET size == IF Len(start.mPoints) < Len(end.mPoints)
                     THEN Len(start.mPoints) ELSE Len(end.mPoints)
             n == 1 + 3 * Cubics(size)
         IN  VPath([i \in 1 .. n |->
                        PointLerp(PointAt(start.mPoints, i, g),
                                  PointAt(end.mPoints, i, g), t)],
                   start.mClosed,
                   n > Len(start.mPoints) \/ n > Len(end.mPoints))

\* PathData::toPath, lines 145-163
ToPath(data, g) ==
    IF Len(data.mPoints) = 0
    THEN EmptyVPath
    ELSE LET size == Len(data.mPoints)
             n == 1 + 3 * Cubics(size)
         IN  VPath([i \in 1 .. n |-> RatPoint(PointAt(data.mPoints, i, g))],
                   data.mClosed,
                   n > size)

\* Property<PathData>::value(int frameNo, VPath &path), lines 343-363, for
\* an animated property whose track is the one segment [0, TDen) from
\* kf.start to kf.end with the linear easing curve.  A call that returns
\* without writing leaves the buffer as it was.
PathValue(k, frameNo, buffer, g) ==
    IF 0 >= frameNo THEN ToPath(k.start, g)
    ELSE IF TDen <= frameNo THEN ToPath(k.end, g)
    ELSE IF frameNo >= 0 /\ frameNo < TDen
    THEN PathLerp(k.start, k.end, Rat(frameNo, TDen), g)
    ELSE buffer

\* two VPaths hold the same points and the same closed flag
SamePath(a, b) ==
    /\ Len(a.points) = Len(b.points)
    /\ a.closed = b.closed
    /\ \A i \in 1 .. Len(a.points) :
          /\ i <= Len(b.points)
          /\ RatEq(a.points[i][1], b.points[i][1])
          /\ RatEq(a.points[i][2], b.points[i][2])

(***************************************************************************)
(* Trim, lines 1641-1717.  Fractions of the path are integers in units of  *)
(* 1/One; a percentage p is p * PctUnit and a degree of offset DegUnit.    *)
(***************************************************************************)
One == 100 * 360 * 250
PctUnit == One \div 100
DegUnit == One \div 360

Abs(x) == IF x < 0 THEN -x ELSE x
Min(a, b) == IF a < b THEN a ELSE b
Max(a, b) == IF a < b THEN b ELSE a

\* vCompare: fuzzy equality of two floats, |a - b| < 0.000001
vCompare(a, b) == Abs(a - b) < One \div 1000000

FmodNone(x, y) == x

\* std::fmod, line 1660: the remainder of the truncated division, which has
\* the sign of x
Fmod(x, y) == IF x >= 0 THEN x % y ELSE -((-x) % y)

Segment(s, e, ok) == [start |-> s, end |-> e, asserts |-> ok]

\* noloop, lines 1693-1701
noloop(start, end) ==
    Segment(Min(start, end), Max(start, end), start >= 0 /\ end >= 0)

\* loop, lines 1702-1710
loop(start, end) ==
    Segment(Max(start, end), Min(start, end), start >= 0 /\ end >= 0)

\* the offset as a fraction of the path, line 1660
TrimOffset(mOffset) == Fmod(mOffset, 360) * DegUnit

\* the branches of lines 1666-1688
TrimBranchesStrict(start, end, offset) ==
    IF offset > 0
    THEN IF start + offset < One /\ end + offset < One
         THEN noloop(start + offset, end + offset)
         ELSE IF start + offset > One /\ end + offset > One
         THEN noloop(start + offset - One, end + offset - One)
         ELSE IF start + offset > One
         THEN loop(start + offset - One, end + offset)
         ELSE loop(start + offset, end + offset - One)
    ELSE IF start + offset >= 0 /\ end + offset >= 0
         THEN noloop(start + offset, end + offset)
         ELSE IF start + offset < 0 /\ end + offset < 0
         THEN noloop(One + start + offset, One + end + offset)
         ELSE IF start + offset < 0
         THEN loop(One + start + offset, end + offset)
         ELSE loop(start + offset, One + end + offset)

TrimBranchesNoWrap(start, end, offset) ==
    IF (offset > 0 /\ start + offset <= One /\ end + offset <= One)
       \/ (offset <= 0 /\ start + offset >= 0 /\ end + offset >= 0)
       \/ (start + offset > One /\ end + offset > One)
       \/ (start + offset < 0 /\ end + offset < 0)
    THEN noloop(start + offset, end + offset)
    ELSE loop(start + offset, end + offset)

TrimBranches(start, end, offset) ==
    IF offset > 0
    THEN IF start + offset <= One /\ end + offset <= One
         THEN noloop(start + offset, end + offset)
         ELSE IF start + offset > One /\ end + offset > One
         THEN noloop(start + offset - One, end + offset - One)
         ELSE IF start + offset > One
         THEN loop(start + offset - One, end + offset)
         ELSE loop(start + offset, end + offset - One)
    ELSE IF start + offset >= 0 /\ end + offset >= 0
         THEN noloop(start + offset, end + offset)
         ELSE IF start + offset < 0 /\ end + offset < 0
         THEN noloop(One + start + offset, One + end + offset)
         ELSE IF start + offset < 0
         THEN loop(One + start + offset, end + offset)
         ELSE loop(start + offset, One + end + offset)

TrimSegmentNoFullCheck(mStart, mEnd, mOffset) ==
    LET start == mStart * PctUnit
        end == mEnd * PctUnit
        offset == TrimOffset(mOffset)
        diff == Abs(start - end)
    IN  IF vCompare(diff, 0) THEN Segment(0, 0, TRUE)
        ELSE TrimBranches(start, end, offset)

\* Trim::segment, lines 1656-1689, on the values of mStart, mEnd, mOffset
\* at the frame
TrimSegment(mStart, mEnd, mOffset) ==
    LET start == mStart * PctUnit
        end == mEnd * PctUnit
        offset == TrimOffset(mOffset)
        diff == Abs(start - end)
    IN  IF vCompare(diff, 0) THEN Segment(0, 0, TRUE)
        ELSE IF vCompare(diff, One) THEN Segment(0, One, TRUE)
        ELSE TrimBranches(start, end, offset)

(***************************************************************************)
(* The call in progress on prop: its kind ("idle" between calls), its      *)
(* arguments and its result.                                               *)
(***************************************************************************)
NoResult == Result(RatOf(0), "none", 0)

Op(kind, prevFrame, frameNo, result, flag) ==
    [kind |-> kind, prevFrame |-> prevFrame, frameNo |-> frameNo,
     result |-> result, flag |-> flag]

Idle == Op("idle", 0, 0, NoResult, FALSE)

\* no object: the source of a move exists only until it is destroyed
NoProperty == [isValue_ |-> TRUE, impl_ |-> Impl("none", NoValue, NullPtr)]

(***************************************************************************)
(* Property operations.  The caller is single-threaded: a call is issued   *)
(* when none is in progress.                                               *)
(***************************************************************************)
\* The parser reads one keyframe: it takes the track by the mutable
\* animation() and appends a segment that starts where the last one ended.
ParseKeyFrame ==
    /\ op.kind = "idle"
    /\ LET p == PropertyAnimation(prop)
           frames_ == p.impl_.animation_.frames_
           s == IF Len(frames_) = 0 THEN FirstStart ELSE back(frames_).end_
       IN  /\ Len(frames_) < MaxSegs
           /\ \E len \in Lens, i \in Interpolators \cup {NoInterpolator},
                 vs \in Values, ve \in Values :
                 prop' = [p EXCEPT !.impl_.animation_.frames_ =
                             Append(frames_, Frame(s, s + len, i, vs, ve))]
    /\ op' = Op("animation", 0, 0, NoResult, FALSE)
    /\ UNCHANGED <<from, propOthers>>

QueryValue ==
    /\ op.kind = "idle"
    /\ Evaluable(prop)
    /\ \E frameNo \in Frames :
          op' = Op("value", 0, frameNo, PropertyValue(prop, frameNo), FALSE)
    /\ UNCHANGED <<prop, from, propOthers>>

QueryAngle ==
    /\ op.kind = "idle"
    /\ Evaluable(prop)
    /\ \E frameNo \in Frames :
          op' = Op("angle", 0, frameNo,
                   Result(RatOf(PropertyAngle(prop, frameNo)), "angle", 0), FALSE)
    /\ UNCHANGED <<prop, from, propOthers>>

QueryChanged ==
    /\ op.kind = "idle"
    /\ Evaluable(prop)
    /\ \E prevFrame \in Frames, curFrame \in Frames :
          op' = Op("changed", prevFrame, curFrame, NoResult,
                   PropertyChanged(prop, prevFrame, curFrame))
    /\ UNCHANGED <<prop, from, propOthers>>

\* the mutable value(), lines 312-316: the parser assigns the constant; the
\* assertion isValue_ guards the call
AssignValue ==
    /\ op.kind = "idle"
    /\ prop.isValue_
    /\ \E v \in Values : prop' = [prop EXCEPT !.impl_.value_ = v]
    /\ op' = Op("assign", 0, 0, NoResult, FALSE)
    /\ UNCHANGED <<from, propOthers>>

\* cache(), lines 374-377: Value<float>::cache() does nothing
Cache ==
    /\ op.kind = "idle"
    /\ Evaluable(prop)
    /\ op' = Op("cache", 0, 0, NoResult, FALSE)
    /\ UNCHANGED <<prop, from, propOthers>>

\* move construction: prop becomes the new object, from the one moved from
Move ==
    /\ op.kind = "idle"
    /\ prop' = Moved(prop)
    /\ from' = MovedFrom(prop)
    /\ op' = Op("move", 0, 0, NoResult, FALSE)
    /\ UNCHANGED <<propOthers>>

\* the call returns; the source of a move construction is destroyed
Return ==
    /\ op.kind # "idle"
    /\ op' = Idle
    /\ from' = NoProperty
    /\ UNCHANGED <<prop, propOthers>>

InitProp ==
    /\ \E v \in Values : prop = PropertyCtor(v)
    /\ from = NoProperty
    /\ op = Idle

IdleProp == prop = <<>> /\ from = <<>> /\ op = <<>>
IdlePath == kf = <<>> /\ vpath = <<>>
IdleTrim == trim = <<>> /\ seg = <<>>
IdleGrad == grad = <<>> /\ gop = <<>>
IdleText == tlayer = <<>> /\ tdata = <<>>
IdleUni  == uni = <<>> /\ uop = <<>>
IdleFont == fontdb = <<>> /\ fop = <<>>
IdleObj  == object = <<>> /\ oop = <<>>
IdleLayer == lnode = <<>> /\ lop = <<>>
IdleThreads == shared = <<>> /\ threads = <<>>
IdleRepeater == repeater = <<>> /\ rop = <<>>
IdleWeight == selector = <<>> /\ wop = <<>>
IdleNewer == IdleLayer /\ IdleThreads /\ IdleRepeater /\ IdleWeight
IdleRest == IdleGrad /\ IdleText /\ IdleUni /\ IdleFont /\ IdleObj /\ IdleNewer
IdleOlder == IdleProp /\ IdlePath /\ IdleTrim /\ IdleGrad /\ IdleText /\ IdleUni
                 /\ IdleFont /\ IdleObj

Init == InitProp /\ IdlePath /\ IdleTrim /\ IdleRest

Next ==
    \/ AssignValue
    \/ ParseKeyFrame
    \/ QueryValue
    \/ QueryAngle
    \/ QueryChanged
    \/ Cache
    \/ Move
    \/ Return

Spec == Init /\ [][Next]_vars

(***************************************************************************)
(* SpecPath: a pair of keyframe paths and the calls that write a VPath.    *)
(***************************************************************************)
PathDatas ==
    {PathData([i \in 1 .. n |-> <<b + i, b * i>>], c) :
        n \in PointCounts, b \in PathBases, c \in BOOLEAN}

Written(call, arg, path) == [call |-> call, arg |-> arg, path |-> path]

InitPath ==
    /\ \E start \in PathDatas, end \in PathDatas :
          kf = [start |-> start, end |-> end]
    /\ vpath = Written("none", 0, EmptyVPath)

\* PathData::lerp(kf.start, kf.end, t / TDen, vpath)
CallLerp ==
    /\ \E t \in 0 .. TDen, g \in Garbage :
          vpath' = Written("lerp", t, PathLerp(kf.start, kf.end, Rat(t, TDen), g))
    /\ UNCHANGED <<kf, pathOthers>>

\* kf.start.toPath(vpath) / kf.end.toPath(vpath)
CallToPath ==
    /\ \E g \in Garbage :
          \/ vpath' = Written("toPath", 0, ToPath(kf.start, g))
          \/ vpath' = Written("toPath", 1, ToPath(kf.end, g))
    /\ UNCHANGED <<kf, pathOthers>>

\* Property<PathData>::value(frameNo, vpath)
CallPathValue ==
    /\ \E frameNo \in -1 .. (TDen + 1), g \in Garbage :
          vpath' = Written("value", frameNo,
                           PathValue(kf, frameNo, vpath.path, g))
    /\ UNCHANGED <<kf, pathOthers>>

NextPath ==
    \/ CallLerp
    \/ CallToPath
    \/ CallPathValue

InitPathSpec == IdleProp /\ InitPath /\ IdleTrim /\ IdleRest

SpecPath == InitPathSpec /\ [][NextPath]_vars

(***************************************************************************)
(* SpecPathAny: the same calls on keyframe paths of any point count, as a  *)
(* caller that fills mPoints itself can make them.                         *)
(***************************************************************************)
AnyPathDatas ==
    {PathData([i \in 1 .. n |-> <<b + i, b * i>>], c) :
        n \in 0 .. MaxPoints, b \in {0, 3}, c \in BOOLEAN}

InitPathAny ==
    /\ \E start \in AnyPathDatas, end \in AnyPathDatas :
          kf = [start |-> start, end |-> end]
    /\ vpath = Written("none", 0, EmptyVPath)

InitPathAnySpec == IdleProp /\ InitPathAny /\ IdleTrim /\ IdleRest

SpecPathAny == InitPathAnySpec /\ [][NextPath]_vars

(***************************************************************************)
(* SpecTrim: a Trim node with static mStart, mEnd, mOffset.                *)
(***************************************************************************)
NoSegment == [called |-> FALSE, result |-> Segment(0, 0, TRUE)]

\* Trim(): mStart{0}, mEnd{0}, mOffset{0}, lines 1713-1715
InitTrim ==
    /\ trim = [mStart |-> 0, mEnd |-> 0, mOffset |-> 0]
    /\ seg = NoSegment

\* the parser reads "s", "e" and "o" of the trim object into mStart, mEnd
\* and mOffset
ParseStart ==
    /\ \E s \in Percents : trim' = [trim EXCEPT !.mStart = s]
    /\ seg' = NoSegment
    /\ UNCHANGED trimOthers

ParseEnd ==
    /\ \E e \in Percents : trim' = [trim EXCEPT !.mEnd = e]
    /\ seg' = NoSegment
    /\ UNCHANGED trimOthers

ParseOffset ==
    /\ \E o \in Offsets : trim' = [trim EXCEPT !.mOffset = o]
    /\ seg' = NoSegment
    /\ UNCHANGED trimOthers

\* Trim::segment(frameNo)
CallSegment ==
    /\ seg' = [called |-> TRUE,
               result |-> TrimSegment(trim.mStart, trim.mEnd, trim.mOffset)]
    /\ UNCHANGED <<trim, trimOthers>>

NextTrim ==
    \/ ParseStart
    \/ ParseEnd
    \/ ParseOffset
    \/ CallSegment

InitTrimSpec == IdleProp /\ IdlePath /\ InitTrim /\ IdleRest

SpecTrim == InitTrimSpec /\ [][NextTrim]_vars

(***************************************************************************)
(* Gradient::Data: a std::vector<float>, and its operator+ and operator-.  *)
(* A float is modelled at reduced precision: an integer (a multiple of the *)
(* smallest step) with at most MantissaBits significant bits; binary32 has *)
(* 24.  The exponent is unbounded: no overflow, infinity or NaN.           *)
(***************************************************************************)
\* significant bits of a float
MantissaBits == 3
\* most elements of a Gradient::Data
MaxStops == 2

RECURSIVE Pow2(_)
Pow2(k) == IF k = 0 THEN 1 ELSE 2 * Pow2(k - 1)

\* the number of low bits a magnitude loses when it is stored in a float
RECURSIVE LostBits(_, _)
LostBits(ax, k) ==
    IF ax < Pow2(MantissaBits + k) THEN k ELSE LostBits(ax, k + 1)

\* the distance between a float of magnitude ax and the next one
Ulp(ax) == Pow2(LostBits(ax, 0))

\* the float nearest to the real x, ties to the even mantissa
Fl(x) ==
    LET ax   == Abs(x)
        u    == Ulp(ax)
        q    == ax \div u
        r    == ax % u
        up   == 2 * r > u \/ (2 * r = u /\ q % 2 = 1)
        m    == (IF up THEN q + 1 ELSE q) * u
    IN  IF x < 0 THEN 0 - m ELSE m

FloatAdd(a, b) == Fl(a + b)
FloatSub(a, b) == Fl(a - b)

\* what a read past the end of a vector yields
Indeterminate == "indeterminate"

\* the loop `for (auto &i : newG.mGradient) { i = i + *g2It; g2It++; }`,
\* or the one of operator- with i - *g2It,
\* over a copy of g1; oob records a read of g2 past its end
GradientZip(g1, g2, sign) ==
    [g   |-> [i \in 1 .. Len(g1) |->
                 IF i > Len(g2) THEN Indeterminate
                 ELSE IF sign = "+" THEN FloatAdd(g1[i], g2[i])
                 ELSE FloatSub(g1[i], g2[i])],
     oob |-> Len(g1) > Len(g2)]

GradientSubAdds(g1, g2) ==
    IF Len(g1) # Len(g2) THEN [g |-> g1, oob |-> FALSE]
    ELSE GradientZip(g1, g2, "+")

GradientAddNoSizeCheck(g1, g2) == GradientZip(g1, g2, "+")

GradientAdd(g1, g2) ==
    IF Len(g1) # Len(g2) THEN [g |-> g1, oob |-> FALSE]
    ELSE GradientZip(g1, g2, "+")

GradientSub(g1, g2) ==
    IF Len(g1) # Len(g2) THEN [g |-> g1, oob |-> FALSE]
    ELSE GradientZip(g1, g2, "-")

\* the floats a gradient element is drawn from
GradValues == {x \in {0 - 12, 0, 1, 3, 12, 28} : Fl(x) = x}
GradDatas == UNION {[1 .. n -> GradValues] : n \in 0 .. MaxStops}

GradIdle == [kind |-> "idle"]

InitGrad ==
    /\ grad \in [a : GradDatas, b : GradDatas]
    /\ gop = GradIdle

\* a + b
CallAdd ==
    /\ gop.kind = "idle"
    /\ gop' = [kind |-> "add", result |-> GradientAdd(grad.a, grad.b)]
    /\ UNCHANGED <<grad, gradOthers>>

\* a - b
CallSub ==
    /\ gop.kind = "idle"
    /\ gop' = [kind |-> "sub", result |-> GradientSub(grad.a, grad.b)]
    /\ UNCHANGED <<grad, gradOthers>>

\* (a + b) - b, the sum just computed being the left operand
CallSubOfSum ==
    /\ gop.kind = "add"
    /\ ~gop.result.oob
    /\ gop' = [kind |-> "addsub", sum |-> gop.result.g,
               result |-> GradientSub(gop.result.g, grad.b)]
    /\ UNCHANGED <<grad, gradOthers>>

ReturnGrad ==
    /\ gop.kind # "idle"
    /\ gop' = GradIdle
    /\ UNCHANGED <<grad, gradOthers>>

NextGrad ==
    \/ CallAdd
    \/ CallSub
    \/ CallSubOfSum
    \/ ReturnGrad

InitGradSpec == IdleProp /\ IdlePath /\ IdleTrim /\ InitGrad
                    /\ IdleText /\ IdleUni /\ IdleFont /\ IdleObj /\ IdleNewer

SpecGrad == InitGradSpec /\ [][NextGrad]_vars

(***************************************************************************)
(* TextLayerData: the documents and animators of a text layer, and         *)
(* getTextData, which fills a caller's TextData for a frame.  Floats are   *)
(* exact rationals in lowest terms.  Of the nine animatable character      *)
(* properties the model keeps opacity, strokeWidth, fillColor and          *)
(* strokeColor; rotation, tracking, position, scale and anchor are         *)
(* computed by the same statement as opacity.  The values of an animator's *)
(* properties are static.                                                  *)
(***************************************************************************)
\* most documents of a text layer
MaxDocs == 2
\* most getTextData calls that fill one TextData object
MaxCalls == 2

RECURSIVE GCD(_, _)
GCD(a, b) == IF b = 0 THEN a ELSE GCD(b, a % b)

Reduce(r) ==
    LET g == GCD(Abs(r.n), r.d)
    IN  Rat(r.n \div g, r.d \div g)

RatSub(a, b) == Reduce(Rat(a.n * b.d - b.n * a.d, a.d * b.d))

\* start + t * (end - start) on floats, lines 52-56
RatLerp(start, end, t) ==
    Reduce(Rat(start.n * end.d * t.d + t.n * (end.n * start.d - start.n * end.d),
               start.d * end.d * t.d))

\* Color: r, g, b, lines 69-96; lerp works on each component
Color(r, g, b) == <<RatOf(r), RatOf(g), RatOf(b)>>
ColorLerp(start, end, t) == [c \in 1 .. 3 |-> RatLerp(start[c], end[c], t)]

\* CharAnimatedProperties and its default member initializers
CharAnimatedProperties ==
    [opacity     |-> RatOf(100),
     strokeWidth |-> RatOf(0),
     fillColor   |-> Color(0, 0, 0),
     strokeColor |-> Color(0, 0, 0)]

\* a default-constructed TextData
TextData == [fontSize |-> 0, charAnimPropList |-> <<>>]

\* TextDocument: mText stands for its size, mText.size()
TextDocument(time, length, size, width, fill, stroke) ==
    [mTime |-> time, mText |-> length, mSize |-> size,
     mStrokeWidth |-> width, mFillColor |-> fill, mStrokeColor |-> stroke]

TextDocuments ==
    {TextDocument(0, 3, 12, 2, Color(1, 0, 0), Color(0, 0, 1)),
     TextDocument(0, 1, 20, 4, Color(0, 1, 0), Color(1, 1, 1)),
     TextDocument(5, 3, 16, 6, Color(0, 1, 1), Color(1, 0, 1))}

\* PropertyText: its type and the value it holds
PropertyText(type, value) == [type |-> type, value |-> value]

TextAnimator(unit, start, end, hasRange_, properties) ==
    [mRangeUnit  |-> unit,
     mRangeStart |-> PropertyCtor(start),
     mRangeEnd   |-> PropertyCtor(end),
     mHasRange   |-> hasRange_,
     mAnimatedProperties |-> properties]

\* mRangeUnit: 1 = percentage, 2 = index, 0 when nothing was parsed
Percentage == 1
Index == 2

\* the range selectors of the model; the first is the one of an animator
\* without a range selector, which keeps the member initializers
RangeSelectors ==
    {<<0, 0, 100, FALSE>>,
     <<Index, 1, 2, TRUE>>,
     <<Index, 2, 1, TRUE>>,
     <<Percentage, 0, 100, TRUE>>,
     <<Percentage, 50, 100, TRUE>>,
     <<Percentage, 0, 50, TRUE>>,
     <<Percentage, 25, 50, TRUE>>}

AnimatedProperties ==
    {<<PropertyText("Opacity", 50)>>,
     <<PropertyText("Opacity", 0), PropertyText("StrokeWidth", 10),
       PropertyText("FillColor", Color(0, 0, 1))>>}

TextAnimators ==
    {TextAnimator(r[1], r[2], r[3], r[4], ps) :
        r \in RangeSelectors, ps \in AnimatedProperties}

AnimatorCounts == {0, 1, 2}

textDocumentLast(mTextDocument, frameNo) ==
    LET later == {k \in 1 .. Len(mTextDocument) :
                     mTextDocument[k].mTime >= frameNo}
    IN  IF later # {}
        THEN CHOOSE k \in later : \A j \in later : k >= j
        ELSE Len(mTextDocument)

\* textDocument(frameNo), lines 1166-1173: the index of the document
textDocument(mTextDocument, frameNo) ==
    LET later == {k \in 1 .. Len(mTextDocument) :
                     mTextDocument[k].mTime >= frameNo}
    IN  IF later # {}
        THEN CHOOSE k \in later : \A j \in later : k <= j
        ELSE Len(mTextDocument)

\* TextLayerData::isStatic, lines 1184-1188
TextLayerIsStatic(layer) ==
    layer.mTextAnimator = <<>> /\ Len(layer.mTextDocument) <= 1

\* hasRange, lines 1190-1197
hasRange(layer) ==
    \E k \in 1 .. Len(layer.mTextAnimator) : layer.mTextAnimator[k].mHasRange

\* rangeStartIndex / rangeEndIndex, lines 1227-1235
RangeIndex(textAnim, range, frameNo, textLength) ==
    LET v == PropertyValue(range, frameNo).value
    IN  IF textAnim.mRangeUnit = Percentage
        THEN Reduce(Rat(v.n * textLength, v.d * 100))
        ELSE v

ProgressFirstBranchOnly(rs, re, i) ==
    IF RatLe(rs, RatOf(i)) /\ RatLe(RatOf(i + 1), re) THEN RatOf(1)
    ELSE RatOf(0)

ProgressSpanOnly(rs, re, i) ==
    IF RatLe(rs, RatOf(i)) /\ RatLe(RatOf(i + 1), re)
    THEN RatOf(1)
    ELSE RatSub(re, rs)

\* the five-way classification of lines 1237-1252
Progress(rs, re, i) ==
    IF RatLe(rs, RatOf(i)) /\ RatLe(RatOf(i + 1), re)
    THEN RatOf(1)
    ELSE IF RatLe(RatOf(i), rs) /\ RatLe(re, RatOf(i + 1))
    THEN RatSub(re, rs)
    ELSE IF RatLe(rs, RatOf(i)) /\ RatLe(RatOf(i), re) /\ RatLe(re, RatOf(i + 1))
    THEN RatSub(re, RatOf(i))
    ELSE IF RatLe(RatOf(i), rs) /\ RatLe(rs, RatOf(i + 1))
              /\ RatLe(RatOf(i + 1), re)
    THEN RatSub(RatOf(i + 1), rs)
    ELSE RatOf(0)

\* progress of animator textAnim for character i
AnimatorProgress(textAnim, i, textLength, frameNo) ==
    Progress(RangeIndex(textAnim, textAnim.mRangeStart, frameNo, textLength),
             RangeIndex(textAnim, textAnim.mRangeEnd, frameNo, textLength), i)

\* one case of the switch, lines 1256-1285
ApplyProperty(animProp, property, progress) ==
    CASE property.type = "Opacity" ->
           [animProp EXCEPT
              !.opacity = RatLerp(@, RatOf(property.value), progress)]
      [] property.type = "StrokeWidth" ->
           [animProp EXCEPT
              !.strokeWidth = RatLerp(@, RatOf(property.value), progress)]
      [] property.type = "FillColor" ->
           [animProp EXCEPT
              !.fillColor = ColorLerp(@, property.value, progress)]
      [] property.type = "StrokeColor" ->
           [animProp EXCEPT
              !.strokeColor = ColorLerp(@, property.value, progress)]
      [] OTHER -> animProp

\* for (auto &property : textAnim.mAnimatedProperties), from the j-th on
RECURSIVE ApplyProperties(_, _, _, _)
ApplyProperties(animProp, properties, j, progress) ==
    IF j > Len(properties) THEN animProp
    ELSE ApplyProperties(ApplyProperty(animProp, properties[j], progress),
                         properties, j + 1, progress)

\* the body of the loop over the animators, lines 1227-1288
ApplyAnimator(animProp, textAnim, i, textLength, frameNo) ==
    LET progress == AnimatorProgress(textAnim, i, textLength, frameNo)
    IN  IF RatLt(RatOf(0), progress)
        THEN ApplyProperties(animProp, textAnim.mAnimatedProperties, 1, progress)
        ELSE animProp

RECURSIVE ApplyAnimatorsBackwards(_, _, _, _, _, _, _)
ApplyAnimatorsBackwards(animProp, animators, k, n, i, textLength, frameNo) ==
    IF k > n THEN animProp
    ELSE ApplyAnimatorsBackwards(
             ApplyAnimator(animProp, animators[n], i, textLength, frameNo),
             animators, k, n - 1, i, textLength, frameNo)

\* for (auto &textAnim : mTextAnimator), the animators k .. n in order
RECURSIVE ApplyAnimators(_, _, _, _, _, _, _)
ApplyAnimators(animProp, animators, k, n, i, textLength, frameNo) ==
    IF k > n THEN animProp
    ELSE ApplyAnimators(
             ApplyAnimator(animProp, animators[k], i, textLength, frameNo),
             animators, k + 1, n, i, textLength, frameNo)

\* the record emplace_back() creates, after lines 1221-1223
DocumentRecord(document) ==
    [CharAnimatedProperties EXCEPT
       !.strokeWidth = RatOf(document.mStrokeWidth),
       !.fillColor   = document.mFillColor,
       !.strokeColor = document.mStrokeColor]

\* the number of records a query adds, lines 1202 and 1214
TextLengthAlwaysExpands(layer, document) == document.mText

TextLength(layer, document) ==
    IF TextLayerIsStatic(layer) \/ ~hasRange(layer) THEN 1 ELSE document.mText

\* getTextData, lines 1199-1292: the TextData obj after the call
GetTextData(obj, layer, frameNo) ==
    LET document   == layer.mTextDocument[textDocument(layer.mTextDocument, frameNo)]
        textLength == TextLength(layer, document)
        n          == Len(layer.mTextAnimator)
    IN  [fontSize |-> document.mSize,
         charAnimPropList |->
            obj.charAnimPropList \o
            [c \in 1 .. textLength |->
                ApplyAnimators(DocumentRecord(document), layer.mTextAnimator,
                               1, n, c - 1, textLength, frameNo)]]

TextFrames == {0, 5}

SeqsUpTo(S, counts) == UNION {[1 .. n -> S] : n \in counts}

TextIdle == [kind |-> "idle"]

InitText ==
    /\ tlayer \in [mTextDocument : SeqsUpTo(TextDocuments, 1 .. MaxDocs),
                   mTextAnimator : SeqsUpTo(TextAnimators, AnimatorCounts)]
    /\ tdata = [obj |-> TextData, calls |-> 0, call |-> TextIdle]

\* getTextData(obj, frameNo); the call record keeps the document chosen,
\* the length of the list before the call, and the progress computed for
\* each character and animator
CallGetTextData ==
    /\ tdata.call.kind = "idle"
    /\ tdata.calls < MaxCalls
    /\ \E frameNo \in TextFrames :
         LET d == textDocument(tlayer.mTextDocument, frameNo)
             textLength == TextLength(tlayer, tlayer.mTextDocument[d])
         IN  tdata' =
               [obj   |-> GetTextData(tdata.obj, tlayer, frameNo),
                calls |-> tdata.calls + 1,
                call  |-> [kind |-> "getTextData", frameNo |-> frameNo,
                           document |-> d, textLength |-> textLength,
                           before |-> Len(tdata.obj.charAnimPropList),
                           progress |->
                             [c \in 1 .. textLength |->
                                [k \in 1 .. Len(tlayer.mTextAnimator) |->
                                   AnimatorProgress(tlayer.mTextAnimator[k],
                                                    c - 1, textLength, frameNo)]]]]
    /\ UNCHANGED <<tlayer, textOthers>>

ReturnText ==
    /\ tdata.call.kind # "idle"
    /\ tdata' = [tdata EXCEPT !.call = TextIdle]
    /\ UNCHANGED <<tlayer, textOthers>>

\* the caller starts over with a default-constructed TextData
NewTextData ==
    /\ tdata.call.kind = "idle"
    /\ tdata.calls > 0
    /\ tdata' = [obj |-> TextData, calls |-> 0, call |-> TextIdle]
    /\ UNCHANGED <<tlayer, textOthers>>

NextText ==
    \/ CallGetTextData
    \/ ReturnText
    \/ NewTextData

InitTextSpec == IdleProp /\ IdlePath /\ IdleTrim /\ IdleGrad /\ InitText
                    /\ IdleUni /\ IdleFont /\ IdleObj /\ IdleNewer

SpecText == InitTextSpec /\ [][NextText]_vars

(***************************************************************************)
(* Unicode: a UTF-8 string and its decoded code points.  A std::string is  *)
(* a sequence of bytes 0 .. 255, indexed from 1; the masks and shifts of   *)
(* the decoder are written as comparisons, remainders and products.        *)
(***************************************************************************)
\* most bytes of an input string
MaxBytes == 3

\* 'A'; a continuation byte; the lead bytes of C0 80 (overlong), of a
\* 2-byte, of E0 80 80 (overlong), of a 3-byte and of an out-of-range
\* 4-byte sequence; a byte that leads nothing
Bytes == {65, 128, 192, 195, 224, 226, 245, 255}
Strings == UNION {[1 .. n -> Bytes] : n \in 0 .. MaxBytes}

\* lines 672-674
isInvalidByte(x) == x = 192 \/ x = 193 \/ x >= 245

\* (x & 0xc0) == 0x80, lines 676-678
isContinuationByte(x) == 128 <= x /\ x < 192

\* the branch a first byte selects, lines 701-816: the number of bytes that
\* follow, the bits the first byte contributes, and the largest value an
\* overlong encoding can have; tail = -1 is the final else
Branch(tail, bits, overlong) ==
    [tail |-> tail, bits |-> bits, overlong |-> overlong]

LeadBranch(d) ==
    CASE d < 128 -> Branch(0, d, -1)
      [] 192 <= d /\ d < 224 -> Branch(1, d % 32, 127)
      [] 224 <= d /\ d < 240 -> Branch(2, d % 16, 2047)
      [] 240 <= d /\ d < 248 -> Branch(3, d % 8, 65535)
      [] 248 <= d /\ d < 252 -> Branch(4, d % 4, 2097151)
      [] 252 <= d /\ d < 254 -> Branch(5, d % 2, 67108863)
      [] OTHER -> Branch(-1, 0, -1)

Decoded(status, out) == [status |-> status, out |-> out]

\* d = input.at(++i) and its checks, n times; i is the index of the byte
\* read last.  input.at throws std::out_of_range past the end.
RECURSIVE ReadTail(_, _, _, _)
ReadTail(input, i, n, r) ==
    IF n = 0 THEN [status |-> "ok", r |-> r, i |-> i]
    ELSE IF i + 1 > Len(input) THEN [status |-> "throw", r |-> r, i |-> i]
    ELSE LET d == input[i + 1]
         IN  IF d = 0 \/ isInvalidByte(d) \/ ~isContinuationByte(d)
             THEN [status |-> "false", r |-> r, i |-> i + 1]
             ELSE ReadTail(input, i + 1, n - 1, r * 64 + (d % 64))

\* the loop of convertToUnicode from index i on, lines 696-824
RECURSIVE ConvertFrom(_, _, _)
ConvertFrom(input, i, out) ==
    IF i > Len(input) THEN Decoded("true", out)
    ELSE LET b == LeadBranch(input[i])
         IN  IF b.tail = 0
             THEN ConvertFrom(input, i + 1, Append(out, input[i]))
             ELSE IF b.tail = -1
             THEN ConvertFrom(input, i + 2, out)
             ELSE LET t == ReadTail(input, i, b.tail, b.bits)
                  IN  IF t.status = "throw" THEN Decoded("throw", out)
                      ELSE IF t.status = "false" THEN Decoded("false", out)
                      ELSE IF t.r <= b.overlong THEN Decoded("false", out)
                      ELSE ConvertFrom(input, t.i + 1, Append(out, t.r))

\* convertToUnicode(input, out) with an empty out
convertToUnicode(input) == ConvertFrom(input, 1, <<>>)

UnicodeObject(utf8, text) ==
    [mUtf8Text |-> utf8, mUnicodeText |-> text, mUnicodeLength |-> Len(text)]

\* Unicode() = default
DefaultUnicode == UnicodeObject(<<>>, <<>>)

setUtf8TextStoresAnyway(u, input) ==
    LET c == convertToUnicode(input)
    IN  IF c.status = "throw" THEN u ELSE UnicodeObject(input, c.out)

\* setUtf8Text, lines 827-837: the object after the call, also when the
\* call is left by the exception of convertToUnicode
setUtf8Text(u, input) ==
    LET c == convertToUnicode(input)
    IN  IF c.status = "true" THEN UnicodeObject(input, c.out) ELSE u

\* Unicode(std::string input), lines 683-685
UnicodeCtor(input) == setUtf8Text(DefaultUnicode, input)

\* what compare returns: its value, and whether t was read at or past the
\* length of the other text (t is null when the other text was never set)
Compared(result, oob) == [result |-> result, oob |-> oob]

\* compare, lines 847-855, from index i on: the outcomes.  The loop runs
\* over the own length; a read of t at or past the other length yields
\* whatever lies there, equal to the own code point or not
RECURSIVE CompareFrom(_, _, _, _)
CompareFrom(u, input, i, oob) ==
    IF i > u.mUnicodeLength THEN {Compared(0, oob)}
    ELSE IF i > input.mUnicodeLength
    THEN {Compared(1, TRUE)} \cup CompareFrom(u, input, i + 1, TRUE)
    ELSE IF u.mUnicodeText[i] # input.mUnicodeText[i] THEN {Compared(1, oob)}
    ELSE CompareFrom(u, input, i + 1, oob)

compare(u, input) == CompareFrom(u, input, 1, FALSE)

\* TextDocument::operator==, lines 1131-1144, on two documents whose other
\* members are equal: the value of mText.compare(a.mText) == 0
TextDocumentEq(c) == c.result = 0

\* the texts an object is constructed from before it is set again
ConstructedFrom == {<<>>, <<65>>, <<195, 128, 65>>}

UniIdle == [kind |-> "idle"]

InitUni ==
    /\ uni \in {UnicodeCtor(text) : text \in ConstructedFrom}
    /\ uop = UniIdle

\* convertToUnicode(input, out)
CallConvert ==
    /\ uop.kind = "idle"
    /\ \E input \in Strings :
         uop' = [kind |-> "convert", input |-> input,
                 result |-> convertToUnicode(input)]
    /\ UNCHANGED <<uni, uniOthers>>

\* setUtf8Text(input)
CallSetUtf8Text ==
    /\ uop.kind = "idle"
    /\ \E input \in Strings :
         /\ uop' = [kind |-> "set", input |-> input, before |-> uni,
                    result |-> convertToUnicode(input)]
         /\ uni' = setUtf8Text(uni, input)
    /\ UNCHANGED uniOthers

\* compare(input) and input.compare(*this), and operator== of two
\* documents that hold the two texts and are equal otherwise
CallCompare ==
    /\ uop.kind = "idle"
    /\ \E text \in Strings :
         LET input == UnicodeCtor(text)
         IN  \E c \in compare(uni, input), r \in compare(input, uni) :
               uop' = [kind |-> "compare", input |-> input, result |-> c,
                       reverse |-> r, equal |-> TextDocumentEq(c)]
    /\ UNCHANGED <<uni, uniOthers>>

\* the caller is done with the object and constructs another
ReturnUni ==
    /\ uop.kind # "idle"
    /\ uop' = UniIdle
    /\ uni' \in {UnicodeCtor(text) : text \in ConstructedFrom}
    /\ UNCHANGED uniOthers

NextUni ==
    \/ CallConvert
    \/ CallSetUtf8Text
    \/ CallCompare
    \/ ReturnUni

InitUniSpec == IdleProp /\ IdlePath /\ IdleTrim /\ IdleGrad /\ IdleText
                   /\ InitUni /\ IdleFont /\ IdleObj /\ IdleNewer

SpecUnicode == InitUniSpec /\ [][NextUni]_vars

(***************************************************************************)
(* FontDB: the registered fonts and the glyph table, and load.  A glyph's  *)
(* mCh is its sequence of code points; mSize, a double, is counted in      *)
(* halves so that (int)mSize truncates.                                    *)
(***************************************************************************)
\* most entries of the glyph table
MaxGlyphs == 2

Fonts(name, family) == [mFontName |-> name, mFontFamily |-> family]
Chars(ch, family, halves) ==
    [mCh |-> ch, mFontFamily |-> family, mSize |-> halves]

FontEntries == {Fonts("F", "a"), Fonts("F", "b"), Fonts("G", "a")}
FontCounts == {0, 1, 2}

\* glyphs of sizes 12, 12.5 and 20; one glyph has no text
GlyphEntries ==
    {Chars(<<65>>, "a", 24), Chars(<<65>>, "b", 25), Chars(<<65, 66>>, "a", 25),
     Chars(<<66>>, "a", 40), Chars(<<65>>, "b", 40), Chars(<<>>, "a", 24)}

\* (int)obj.mSize of a non-negative size
IntSize(halves) == halves \div 2

NoFamily == "nullptr"

\* ffamily, lines 925-932: the family of the first font of that name
ffamily(mFonts, fname) ==
    LET named == {k \in 1 .. Len(mFonts) : mFonts[k].mFontName = fname}
    IN  IF named = {} THEN NoFamily
        ELSE mFonts[CHOOSE k \in named : \A j \in named : k <= j].mFontFamily

Loaded(kind, entry) == [kind |-> kind, entry |-> entry]

\* chars, lines 916-924, from entry k on: the outcomes the build can
\* produce.  obj.mCh.at(0) on a glyph without text fails its assertion, or
\* without assertions reads a code point that is not there, which may or
\* may not equal charCode.
RECURSIVE chars(_, _, _, _, _)
chars(mChars, k, charCode, size, family) ==
    IF k > Len(mChars) THEN {Loaded("null", 0)}
    ELSE LET glyph == mChars[k]
             rest  == chars(mChars, k + 1, charCode, size, family)
         IN  IF size # IntSize(glyph.mSize) THEN rest
             ELSE IF glyph.mCh = <<>>
             THEN {Loaded("abort", k)} \cup rest \cup
                  (IF glyph.mFontFamily = family
                   THEN {Loaded("entry", k)} ELSE {})
             ELSE IF charCode = glyph.mCh[1] /\ glyph.mFontFamily = family
             THEN {Loaded("entry", k)}
             ELSE rest

\* load, lines 905-914
load(db, charCode, size, fname) ==
    IF db.mChars = <<>> THEN {Loaded("null", 0)}
    ELSE LET family == ffamily(db.mFonts, fname)
         IN  IF family = NoFamily THEN {Loaded("null", 0)}
             ELSE chars(db.mChars, 1, charCode, size, family)

CharCodes == {65, 66}
FontSizes == {12, 20}
FontNames == {"F", "G", "H"}

FontIdle == [kind |-> "idle"]

InitFont ==
    /\ fontdb \in [mFonts : SeqsUpTo(FontEntries, FontCounts),
                   mChars : SeqsUpTo(GlyphEntries, 0 .. MaxGlyphs)]
    /\ fop = FontIdle

\* load(charCode, size, fname)
CallLoad ==
    /\ fop.kind = "idle"
    /\ \E charCode \in CharCodes, size \in FontSizes, fname \in FontNames :
       \E result \in load(fontdb, charCode, size, fname) :
         fop' = [kind |-> "load", charCode |-> charCode, size |-> size,
                 fname |-> fname, result |-> result]
    /\ UNCHANGED <<fontdb, fontOthers>>

ReturnFont ==
    /\ fop.kind = "load"
    /\ fop.result.kind # "abort"
    /\ fop' = FontIdle
    /\ UNCHANGED <<fontdb, fontOthers>>

NextFont ==
    \/ CallLoad
    \/ ReturnFont

InitFontSpec == IdleProp /\ IdlePath /\ IdleTrim /\ IdleGrad /\ IdleText
                    /\ IdleUni /\ InitFont /\ IdleObj /\ IdleNewer

SpecFont == InitFontSpec /\ [][NextFont]_vars

(***************************************************************************)
(* Object: the name of a node.  The anonymous union of lines 661-664 lays  *)
(* mPtr over the first bytes of mData._buffer; the flag bits of mData lie  *)
(* behind the buffer and are not part of the overlap.  A byte of the       *)
(* buffer is a character, a byte of a stored pointer, or indeterminate.    *)
(* The heap is the sequence of the copies strdup made; the address of a    *)
(* copy is its index.  _type, _static and _hidden are left out.            *)
(***************************************************************************)
\* line 651
maxShortStringLength == 14
\* sizeof(char *)
PtrBytes == 8
\* most setName calls on one Object
MaxSetNames == 2

CharByte(c) == [t |-> "char", v |-> c, j |-> 0]
PtrByte(addr, j) == [t |-> "ptr", v |-> addr, j |-> j]
Undef == [t |-> "undef", v |-> 0, j |-> 0]

\* the bytes of a pointer; the null pointer is all zero bytes
PointerBytes(addr) ==
    [j \in 1 .. PtrBytes |-> IF addr = 0 THEN CharByte(0) ELSE PtrByte(addr, j)]

\* a write of mPtr: the first bytes of the union
WritePtr(buffer, addr) ==
    [i \in 1 .. maxShortStringLength |->
        IF i <= PtrBytes THEN PointerBytes(addr)[i] ELSE buffer[i]]

\* a read of mPtr: the address stored, 0 for null, -1 when the bytes are
\* not those of one pointer
ReadPtr(buffer) ==
    IF \A j \in 1 .. PtrBytes : buffer[j] = CharByte(0) THEN 0
    ELSE IF \E addr \in 1 .. MaxSetNames + 1 :
               \A j \in 1 .. PtrBytes : buffer[j] = PtrByte(addr, j)
    THEN buffer[1].v
    ELSE -1

\* a C string argument: null, or the characters before the terminator
NullName == [null |-> TRUE, s |-> <<>>]
Name(s) == [null |-> FALSE, s |-> s]

\* strncpy(mData._buffer, name, len + 1): the characters and the terminator
Strncpy(buffer, s) ==
    [i \in 1 .. maxShortStringLength |->
        IF i <= Len(s) THEN CharByte(s[i])
        ELSE IF i = Len(s) + 1 THEN CharByte(0)
        ELSE buffer[i]]

\* Object(Object::Type), lines 615-621
ObjectCtor ==
    [buffer       |-> WritePtr([i \in 1 .. maxShortStringLength |-> Undef], 0),
     _shortString |-> TRUE,
     heap         |-> <<>>]

setNameKeepsFlag(o, name) ==
    IF name.null THEN o
    ELSE IF Len(name.s) < maxShortStringLength
    THEN [o EXCEPT !._shortString = TRUE, !.buffer = Strncpy(@, name.s)]
    ELSE [o EXCEPT !.heap = Append(@, name.s),
                   !.buffer = WritePtr(@, Len(o.heap) + 1)]

\* setName, lines 635-647: the object after the call
setName(o, name) ==
    IF name.null THEN o
    ELSE IF Len(name.s) < maxShortStringLength
    THEN [o EXCEPT !._shortString = TRUE, !.buffer = Strncpy(@, name.s)]
    ELSE [o EXCEPT !._shortString = FALSE,
                   !.heap = Append(@, name.s),
                   !.buffer = WritePtr(@, Len(o.heap) + 1)]

\* ~Object(), lines 622-625: the addresses handed to free(), in order
ObjectDtor(o) ==
    IF ~o._shortString /\ ReadPtr(o.buffer) # 0
    THEN <<ReadPtr(o.buffer)>>
    ELSE <<>>

\* the C string that starts at buffer[i]
RECURSIVE CString(_, _)
CString(buffer, i) ==
    IF i > maxShortStringLength \/ buffer[i].t # "char"
    THEN [ok |-> FALSE, s |-> <<>>]
    ELSE IF buffer[i].v = 0 THEN [ok |-> TRUE, s |-> <<>>]
    ELSE LET rest == CString(buffer, i + 1)
         IN  [ok |-> rest.ok, s |-> <<buffer[i].v>> \o rest.s]

\* name(), line 648: where the string is read from and what is read;
\* "wild" is a string read through bytes that are no string or no pointer
name(o) ==
    IF o._shortString
    THEN LET c == CString(o.buffer, 1)
         IN  IF c.ok THEN [from |-> "buffer", s |-> c.s]
             ELSE [from |-> "wild", s |-> <<>>]
    ELSE LET p == ReadPtr(o.buffer)
         IN  IF p = 0 THEN [from |-> "null", s |-> <<>>]
             ELSE IF p \in 1 .. Len(o.heap) THEN [from |-> "heap", s |-> o.heap[p]]
             ELSE [from |-> "wild", s |-> <<>>]

\* the names of the model: the lengths around the limit, of two letters
NameLengths == {0, 1, 13, 14, 15}
Names == {Name([i \in 1 .. n |-> c]) : n \in NameLengths, c \in {97, 98}}

\* oop.named is the history of the calls: the last non-null name set
InitObject ==
    /\ object = ObjectCtor
    /\ oop = [kind |-> "idle", sets |-> 0, named |-> <<>>]

\* setName(name)
CallSetName ==
    /\ oop.kind = "idle"
    /\ oop.sets < MaxSetNames
    /\ \E n \in Names \cup {NullName} :
         /\ object' = setName(object, n)
         /\ oop' = [kind |-> "setName", sets |-> oop.sets + 1, arg |-> n,
                    before |-> object,
                    named |-> IF n.null THEN oop.named ELSE n.s]
    /\ UNCHANGED objOthers

\* name()
CallName ==
    /\ oop.kind = "idle"
    /\ oop' = [kind |-> "name", sets |-> oop.sets, result |-> name(object),
               named |-> oop.named]
    /\ UNCHANGED <<object, objOthers>>

ReturnObject ==
    /\ oop.kind \in {"setName", "name"}
    /\ oop' = [kind |-> "idle", sets |-> oop.sets, named |-> oop.named]
    /\ UNCHANGED <<object, objOthers>>

\* the node is destroyed; oop.freed lists the addresses handed to free()
Destroy ==
    /\ oop.kind = "idle"
    /\ oop' = [kind |-> "destroyed", sets |-> oop.sets, named |-> oop.named,
               freed |-> ObjectDtor(object)]
    /\ UNCHANGED <<object, objOthers>>

\* another node is constructed
Construct ==
    /\ oop.kind = "destroyed"
    /\ object' = ObjectCtor
    /\ oop' = [kind |-> "idle", sets |-> 0, named |-> <<>>]
    /\ UNCHANGED objOthers

NextObject ==
    \/ CallSetName
    \/ CallName
    \/ ReturnObject
    \/ Destroy
    \/ Construct

InitObjectSpec == IdleProp /\ IdlePath /\ IdleTrim /\ IdleGrad /\ IdleText
                      /\ IdleUni /\ IdleFont /\ InitObject /\ IdleNewer

SpecObject == InitObjectSpec /\ [][NextObject]_vars

(***************************************************************************)
(* Layer: the extra block, the read accessors and timeRemap, with the      *)
(* Composition the extra block refers to.  mExtra, mTransform and mCompRef *)
(* are <<>> for nullptr, or a one-element sequence holding the object.     *)
(* The extra block carries the number of the allocation that made it.      *)
(* Floats are exact rationals.                                             *)
(***************************************************************************)
Null == <<>>

\* Composition: mStartFrame, mEndFrame, mFrameRate, lines 980-982
Composition(startFrame, endFrame, frameRate) ==
    [mStartFrame |-> startFrame, mEndFrame |-> endFrame,
     mFrameRate |-> frameRate]

\* frameDuration, line 961
frameDuration(comp) == comp.mEndFrame - comp.mStartFrame

\* size_t(round(x)) for x >= 0: halves go up
Round(x) == (2 * x.n + x.d) \div (2 * x.d)

\* frameAtPos, lines 950-955
frameAtPos(comp, pos) ==
    LET p == IF RatLt(pos, RatOf(0)) THEN RatOf(0)
             ELSE IF RatLt(RatOf(1), pos) THEN RatOf(1)
             ELSE pos
    IN  Round(Rat(p.n * frameDuration(comp), p.d))

\* frameAtTime, lines 956-959, with duration() of lines 946-949:
\* timeInSec / (frameDuration() / frameRate())
frameAtTime(comp, timeInSec) ==
    frameAtPos(comp, Rat(timeInSec.n * comp.mFrameRate,
                         timeInSec.d * frameDuration(comp)))

\* int(x / y) for an integer x and a float y > 0: toward zero
IntFloors(x, y) == (x * y.d) \div y.n

IntOf(x, y) ==
    IF x >= 0 THEN (x * y.d) \div y.n ELSE 0 - (((0 - x) * y.d) \div y.n)

\* Property with an animation, as the parser leaves it
AnimatedProperty(frames_) ==
    [isValue_ |-> FALSE, impl_ |-> Impl("animation_", NoValue, Animation(frames_))]

\* Layer::Extra and its member initializers, lines 1340-1347; Color() is
\* (1, 1, 1), and Property<float>() holds the value 0
Extra(block) ==
    [block       |-> block,
     mSolidColor |-> Color(1, 1, 1),
     mTimeRemap  |-> PropertyCtor(0),
     mCompRef    |-> Null,
     mAsset      |-> Null]

\* Layer(), lines 1366-1383; made counts the extra blocks allocated
Layer(startFrame, timeStreatch, transform) ==
    [mStartFrame   |-> startFrame,
     mTimeStreatch |-> timeStreatch,
     mTransform    |-> transform,
     mExtra        |-> Null,
     made          |-> 0]

extraAllocatesAgain(l) ==
    [l EXCEPT !.mExtra = <<Extra(l.made + 1)>>, !.made = l.made + 1]

\* extra(), lines 1352-1356: the layer after the call
extra(l) ==
    IF l.mExtra = Null
    THEN [l EXCEPT !.mExtra = <<Extra(l.made + 1)>>, !.made = l.made + 1]
    ELSE l

Answer(v) == [kind |-> "value", v |-> v]
Crash == [kind |-> "crash", v |-> 0]

\* solidColor(), lines 1317-1320
solidColor(l) ==
    IF l.mExtra # Null THEN l.mExtra[1].mSolidColor ELSE Color(1, 1, 1)

\* asset(), line 1334
asset(l) == IF l.mExtra # Null THEN l.mExtra[1].mAsset ELSE Null

\* fontDB(), lines 1358-1360: the composition whose mFontDB is returned;
\* with mCompRef null the address is formed from a null pointer
fontDB(l) ==
    IF l.mExtra = Null THEN {Answer(Null)}
    ELSE IF l.mExtra[1].mCompRef # Null THEN {Answer(l.mExtra[1].mCompRef)}
    ELSE {Answer(Null), [kind |-> "crash", v |-> Null]}

\* Layer::opacity, lines 1330-1333, on a static Transform (lines 1039-1043)
layerOpacity(l) ==
    IF l.mTransform # Null THEN l.mTransform[1].mOpacity ELSE RatOf(1)

\* Layer::matrix, lines 1325-1329, on a static Transform (lines 1034-1038)
layerMatrix(l) ==
    IF l.mTransform # Null THEN l.mTransform[1].mMatrix ELSE "VMatrix{}"

timeRemapFloors(l, frameNo) ==
    IF l.mExtra = Null \/ isStatic(l.mExtra[1].mTimeRemap)
    THEN {Answer(IntFloors(frameNo - l.mStartFrame, l.mTimeStreatch))}
    ELSE IF l.mExtra[1].mCompRef = Null
    THEN {Crash, Answer(0)}
    ELSE {Answer(IntFloors(
             frameAtTime(l.mExtra[1].mCompRef[1],
                         PropertyValue(l.mExtra[1].mTimeRemap, frameNo).value),
             l.mTimeStreatch))}

\* Layer::timeRemap, lines 1390-1409: the outcomes; with an animated
\* mTimeRemap and no mCompRef the call goes through a null pointer
timeRemap(l, frameNo) ==
    IF l.mExtra = Null \/ isStatic(l.mExtra[1].mTimeRemap)
    THEN {Answer(IntOf(frameNo - l.mStartFrame, l.mTimeStreatch))}
    ELSE IF l.mExtra[1].mCompRef = Null
    THEN {Crash, Answer(0)}
    ELSE {Answer(IntOf(
             frameAtTime(l.mExtra[1].mCompRef[1],
                         PropertyValue(l.mExtra[1].mTimeRemap, frameNo).value),
             l.mTimeStreatch))}

\* the layers, compositions and tracks of the model
StartFrames == {0, 3}
TimeStreatches == {Rat(1, 1), Rat(2, 1), Rat(1, 2)}
StaticTransform == [mMatrix |-> "M", mOpacity |-> Rat(1, 2)]
Compositions == {Composition(0, 5, 3), Composition(2, 6, 2)}
TimeRemaps ==
    {PropertyCtor(0),
     AnimatedProperty(<<Frame(0, 4, "linear", 0, 2)>>),
     AnimatedProperty(<<Frame(1, 3, "easeIn", 0 - 1, 3)>>)}
LayerFrames == 0 .. 4

LayerIdle == [kind |-> "idle"]

InitLayer ==
    /\ lnode \in {Layer(sf, ts, tr) : sf \in StartFrames, ts \in TimeStreatches,
                                      tr \in {Null, <<StaticTransform>>}}
    /\ lop = LayerIdle

\* extra()
CallExtra ==
    /\ lop.kind = "idle"
    /\ lnode' = extra(lnode)
    /\ lop' = [kind |-> "extra", before |-> lnode,
               result |-> Answer(lnode'.mExtra[1].block)]
    /\ UNCHANGED layerOthers

\* the builder fills a field of the block extra() returned
WriteExtra ==
    /\ lop.kind = "idle"
    /\ lnode.mExtra # Null
    /\ \/ \E p \in TimeRemaps :
            lnode' = [lnode EXCEPT !.mExtra[1].mTimeRemap = p]
       \/ \E c \in Compositions :
            lnode' = [lnode EXCEPT !.mExtra[1].mCompRef = <<c>>]
       \/ lnode' = [lnode EXCEPT !.mExtra[1].mSolidColor = Color(1, 0, 0)]
       \/ lnode' = [lnode EXCEPT !.mExtra[1].mAsset = <<"asset">>]
    /\ UNCHANGED <<lop, layerOthers>>

\* solidColor(), asset(), fontDB(), matrix(frameNo), opacity(frameNo)
CallAccessor ==
    /\ lop.kind = "idle"
    /\ \/ lop' = [kind |-> "solidColor", before |-> lnode,
                  result |-> Answer(solidColor(lnode))]
       \/ lop' = [kind |-> "asset", before |-> lnode,
                  result |-> Answer(asset(lnode))]
       \/ lop' = [kind |-> "matrix", before |-> lnode,
                  result |-> Answer(layerMatrix(lnode))]
       \/ lop' = [kind |-> "opacity", before |-> lnode,
                  result |-> Answer(layerOpacity(lnode))]
       \/ \E result \in fontDB(lnode) :
            lop' = [kind |-> "fontDB", before |-> lnode, result |-> result]
    /\ UNCHANGED <<lnode, layerOthers>>

\* timeRemap(frameNo)
CallTimeRemap ==
    /\ lop.kind = "idle"
    /\ \E frameNo \in LayerFrames :
       \E result \in timeRemap(lnode, frameNo) :
         lop' = [kind |-> "timeRemap", before |-> lnode, frameNo |-> frameNo,
                 result |-> result]
    /\ UNCHANGED <<lnode, layerOthers>>

ReturnLayer ==
    /\ lop.kind # "idle"
    /\ lop.result.kind # "crash"
    /\ lop' = LayerIdle
    /\ UNCHANGED <<lnode, layerOthers>>

NextLayer ==
    \/ CallExtra
    \/ WriteExtra
    \/ CallAccessor
    \/ CallTimeRemap
    \/ ReturnLayer

InitLayerSpec == IdleOlder /\ InitLayer /\ IdleThreads /\ IdleRepeater /\ IdleWeight

SpecLayer == InitLayerSpec /\ [][NextLayer]_vars

(***************************************************************************)
(* Repeater, lines 1598-1639: mCopies, mMaxCopies and mProcessed, public   *)
(* members the builder fills, and the accessors that read them.            *)
(***************************************************************************)
\* Repeater(): mCopies{0}, mMaxCopies{0.0}, mProcessed{false}
RepeaterCtor ==
    [mCopies |-> PropertyCtor(0), mMaxCopies |-> RatOf(0), mProcessed |-> FALSE]

\* int(x) of a float
Truncate(x) == IF x.n >= 0 THEN x.n \div x.d ELSE 0 - ((0 - x.n) \div x.d)

\* maxCopies(), line 1626
maxCopies(r) == Truncate(r.mMaxCopies)

\* copies(frameNo), line 1627
copies(r, frameNo) == PropertyValue(r.mCopies, frameNo).value

\* markProcessed(), line 1630
markProcessed(r) == [r EXCEPT !.mProcessed = TRUE]

CopiesProperties ==
    {PropertyCtor(0), PropertyCtor(3), PropertyCtor(5),
     AnimatedProperty(<<Frame(0, 2, "linear", 2, 5)>>)}
MaxCopiesValues == {RatOf(0), RatOf(3), Rat(7, 2), RatOf(5)}
RepeaterFrames == 0 .. 2

RepeaterIdle == [kind |-> "idle"]

InitRepeater ==
    /\ repeater = RepeaterCtor
    /\ rop = RepeaterIdle

\* the builder reads "c" into mCopies
ParseCopies ==
    /\ rop.kind = "idle"
    /\ \E p \in CopiesProperties : repeater' = [repeater EXCEPT !.mCopies = p]
    /\ UNCHANGED <<rop, repeaterOthers>>

\* the builder sets mMaxCopies
ParseMaxCopies ==
    /\ rop.kind = "idle"
    /\ \E x \in MaxCopiesValues : repeater' = [repeater EXCEPT !.mMaxCopies = x]
    /\ UNCHANGED <<rop, repeaterOthers>>

CallCopies ==
    /\ rop.kind = "idle"
    /\ \E frameNo \in RepeaterFrames :
          rop' = [kind |-> "copies", frameNo |-> frameNo,
                  result |-> copies(repeater, frameNo)]
    /\ UNCHANGED <<repeater, repeaterOthers>>

CallMaxCopies ==
    /\ rop.kind = "idle"
    /\ rop' = [kind |-> "maxCopies", frameNo |-> 0,
               result |-> RatOf(maxCopies(repeater))]
    /\ UNCHANGED <<repeater, repeaterOthers>>

CallMarkProcessed ==
    /\ rop.kind = "idle"
    /\ repeater' = markProcessed(repeater)
    /\ UNCHANGED <<rop, repeaterOthers>>

ReturnRepeater ==
    /\ rop.kind # "idle"
    /\ rop' = RepeaterIdle
    /\ UNCHANGED <<repeater, repeaterOthers>>

NextRepeater ==
    \/ ParseCopies
    \/ ParseMaxCopies
    \/ CallCopies
    \/ CallMaxCopies
    \/ CallMarkProcessed
    \/ ReturnRepeater

InitRepeaterSpec == IdleOlder /\ IdleLayer /\ IdleThreads /\ InitRepeater /\ IdleWeight

SpecRepeater == InitRepeaterSpec /\ [][NextRepeater]_vars

(***************************************************************************)
(* SpecWeight: the weight of one animator for one character of a text,     *)
(* over range selectors of both units with bounds before, inside and       *)
(* beyond the text, in either order.                                       *)
(***************************************************************************)
\* most characters of a text
MaxChars == 3

\* the factors handed to lerp for character i, lines 1254-1286: the
\* progress, when it is > 0
UsedWeights(textAnim, i, textLength, frameNo) ==
    LET progress == AnimatorProgress(textAnim, i, textLength, frameNo)
    IN  IF RatLt(RatOf(0), progress) THEN {progress} ELSE {}

RangeBounds == {0 - 50, 0 - 1, 0, 1, 2, 3, 4, 25, 50, 75, 100, 150}

WeightIdle == [kind |-> "idle"]

InitWeight ==
    /\ \E unit \in {Percentage, Index}, start \in RangeBounds,
          end \in RangeBounds, textLength \in 1 .. MaxChars :
          selector = [textAnim |-> TextAnimator(unit, start, end, TRUE,
                                                <<PropertyText("Opacity", 50)>>),
                      textLength |-> textLength]
    /\ wop = WeightIdle

\* the body of the loop over mTextAnimator for character i
CallWeight ==
    /\ wop.kind = "idle"
    /\ \E i \in 0 .. (selector.textLength - 1) :
          wop' = [kind |-> "weight", i |-> i,
                  progress |-> AnimatorProgress(selector.textAnim, i,
                                                selector.textLength, 0),
                  used |-> UsedWeights(selector.textAnim, i,
                                       selector.textLength, 0),
                  animProp |-> ApplyAnimator(CharAnimatedProperties,
                                             selector.textAnim, i,
                                             selector.textLength, 0)]
    /\ UNCHANGED <<selector, weightOthers>>

ReturnWeight ==
    /\ wop.kind # "idle"
    /\ wop' = WeightIdle
    /\ UNCHANGED <<selector, weightOthers>>

NextWeight ==
    \/ CallWeight
    \/ ReturnWeight

InitWeightSpec == IdleOlder /\ IdleLayer /\ IdleThreads /\ IdleRepeater /\ InitWeight

SpecWeight == InitWeightSpec /\ [][NextWeight]_vars

(***************************************************************************)
(* SpecThreads: a built model (a Property, a Trim, a Transform, a Layer    *)
(* and a FontDB, after construction and the cache pass) queried by several *)
(* threads.  A query begins, runs while the other threads take steps, and  *)
(* finishes with its result; what it writes to the model it writes when it *)
(* begins, what it returns it reads when it finishes.                      *)
(***************************************************************************)
\* number of threads
NThreads == 2
Threads == 1 .. NThreads

\* Transform::matrix and Transform::opacity, lines 1034-1043, static case
transformMatrix(tr) == tr.mMatrix
transformOpacity(tr) == tr.mOpacity

Query(fn, a, b) == [name |-> fn, a |-> a, b |-> b]

Queries ==
    {Query("value", 0, 0), Query("value", 2, 0), Query("angle", 2, 0),
     Query("changed", 0, 2), Query("segment", 0, 0),
     Query("Transform::matrix", 0, 0), Query("Transform::opacity", 0, 0),
     Query("timeRemap", 1, 0), Query("matrix", 0, 0), Query("opacity", 0, 0),
     Query("solidColor", 0, 0), Query("asset", 0, 0), Query("load", 65, 12)}

QueryEffectLazyExtra(node, q) ==
    IF q.name = "solidColor" THEN [node EXCEPT !.layer = extra(@)] ELSE node

\* the model after query q has run: every query is a const member
\* function (lines 337-373, 905, 1034-1043, 1317-1334, 1656, 1390) over
\* members none of which is mutable, so it is the model before
QueryEffect(node, q) == node

\* what query q returns on the model
QueryResult(node, q) ==
    CASE q.name = "value" -> PropertyValue(node.property, q.a).value
      [] q.name = "angle" -> PropertyAngle(node.property, q.a)
      [] q.name = "changed" -> PropertyChanged(node.property, q.a, q.b)
      [] q.name = "segment" ->
             TrimSegment(node.trim.mStart, node.trim.mEnd, node.trim.mOffset)
      [] q.name = "Transform::matrix" -> transformMatrix(node.transform)
      [] q.name = "Transform::opacity" -> transformOpacity(node.transform)
      [] q.name = "timeRemap" -> timeRemap(node.layer, q.a)
      [] q.name = "matrix" -> layerMatrix(node.layer)
      [] q.name = "opacity" -> layerOpacity(node.layer)
      [] q.name = "solidColor" -> solidColor(node.layer)
      [] q.name = "asset" -> asset(node.layer)
      [] q.name = "load" -> load(node.fontDB, q.a, q.b, "F")

\* the built models
BuiltLayers ==
    {Layer(3, Rat(2, 1), <<StaticTransform>>),
     [Layer(0, Rat(1, 2), Null) EXCEPT
        !.made = 1,
        !.mExtra = <<[Extra(1) EXCEPT
                        !.mSolidColor = Color(1, 0, 0),
                        !.mTimeRemap = AnimatedProperty(<<Frame(0, 4, "linear", 0, 2)>>),
                        !.mCompRef = <<Composition(0, 5, 3)>>,
                        !.mAsset = <<"asset">>]>>]}

BuiltModels ==
    {[property  |-> p,
      trim      |-> [mStart |-> 10, mEnd |-> 50, mOffset |-> 0 - 90],
      transform |-> StaticTransform,
      layer     |-> l,
      fontDB    |-> [mFonts |-> <<Fonts("F", "a")>>,
                     mChars |-> <<Chars(<<66>>, "a", 40), Chars(<<65>>, "a", 24)>>]] :
        p \in {PropertyCtor(3), AnimatedProperty(<<Frame(0, 4, "easeIn", 1, 3)>>)},
        l \in BuiltLayers}

ThreadIdle == [pc |-> "idle"]

InitThreads ==
    /\ \E node \in BuiltModels : shared = [node |-> node, built |-> node]
    /\ threads = [t \in Threads |-> ThreadIdle]

\* a thread enters a query
Begin ==
    \E t \in Threads, q \in Queries :
        /\ threads[t].pc = "idle"
        /\ shared' = [shared EXCEPT !.node = QueryEffect(@, q)]
        /\ threads' = [threads EXCEPT
                          ![t] = [pc |-> "running", query |-> q,
                                  seen |-> shared.node]]
        /\ UNCHANGED threadOthers

\* the query returns
Finish ==
    \E t \in Threads :
        /\ threads[t].pc = "running"
        /\ threads' = [threads EXCEPT
                          ![t] = [pc |-> "done", query |-> threads[t].query,
                                  seen |-> threads[t].seen,
                                  result |-> QueryResult(shared.node,
                                                         threads[t].query)]]
        /\ UNCHANGED <<shared, threadOthers>>

\* the thread goes on to its next query
ReturnThread ==
    \E t \in Threads :
        /\ threads[t].pc = "done"
        /\ threads' = [threads EXCEPT ![t] = ThreadIdle]
        /\ UNCHANGED <<shared, threadOthers>>

NextThreads ==
    \/ Begin
    \/ Finish
    \/ ReturnThread

InitThreadsSpec == IdleOlder /\ IdleLayer /\ InitThreads /\ IdleRepeater /\ IdleWeight

SpecThreads == InitThreadsSpec /\ [][NextThreads]_vars

(***************************************************************************)
(* Properties of Spec.                                                     *)
(***************************************************************************)
Animated == ~prop.isValue_ /\ ~prop.impl_.animation_.null
Track == prop.impl_.animation_.frames_

\* C1: a value query on an animated Property before the first segment's
\* start returns the first segment's start value, and a query at or after
\* the last segment's end returns the last segment's end value.
C1_ClampOutsideTrack ==
    (op.kind = "value" /\ Animated) =>
        /\ (op.frameNo < front(Track).start_ =>
                RatEq(op.result.value, RatOf(front(Track).value_.start_)))
        /\ (op.frameNo >= back(Track).end_ =>
                RatEq(op.result.value, RatOf(back(Track).value_.end_)))

C1_Witness ==
    /\ op.kind = "value" /\ Animated /\ Len(Track) = 2
    /\ op.frameNo > back(Track).end_
    /\ back(Track).value_.end_ # back(Track).value_.start_
    /\ back(Track).value_.end_ # front(Track).value_.start_

\* C2: a value query strictly between the first start and the last end is
\* computed from the segment k with start_k <= f < end_k, the later segment
\* at a boundary two segments share, and the fraction handed to the easing
\* curve is in [0,1) with a nonzero denominator.
C2_HalfOpenSegment ==
    (/\ op.kind = "value" /\ Animated
     /\ front(Track).start_ < op.frameNo
     /\ op.frameNo < back(Track).end_) =>
        LET k == op.result.seg
            f == op.frameNo
        IN  /\ k \in 1 .. Len(Track)
            /\ Track[k].start_ <= f /\ f < Track[k].end_
            /\ \A j \in 1 .. Len(Track) : Track[j].start_ = f => k = j
            /\ op.result.by = "loop"
            /\ RatEq(op.result.value, FrameValue(Track[k], f))
            /\ FrameFraction(Track[k], f).d # 0
            /\ RatLe(RatOf(0), FrameFraction(Track[k], f))
            /\ RatLt(FrameFraction(Track[k], f), RatOf(1))

C2_Witness ==
    /\ op.kind = "value" /\ Animated /\ Len(Track) = 2
    /\ op.frameNo = Track[1].end_
    /\ op.frameNo = Track[2].start_
    /\ op.result.seg = 2
    /\ Track[2].interpolator_ # NoInterpolator

\* C3: in a segment without an easing curve the progress is zero: the value
\* at every frame of [start, end) is the segment's start value.
C3_NoCurveHoldsStart ==
    (op.kind = "value" /\ Animated) =>
        \A k \in 1 .. Len(Track) :
            (/\ Track[k].interpolator_ = NoInterpolator
             /\ Track[k].start_ <= op.frameNo
             /\ op.frameNo < Track[k].end_) =>
                RatEq(op.result.value, RatOf(Track[k].value_.start_))

C3_Witness ==
    /\ op.kind = "value" /\ Animated
    /\ \E k \in 1 .. Len(Track) :
          /\ Track[k].interpolator_ = NoInterpolator
          /\ Track[k].start_ < op.frameNo
          /\ op.frameNo < Track[k].end_
          /\ Track[k].value_.start_ # Track[k].value_.end_
          /\ op.result.seg = k

InRange(f) == front(Track).start_ <= f /\ f <= back(Track).end_
Before(f) == f < front(Track).start_
After(f) == f > back(Track).end_

\* C4 as stated: changed(prevFrame, curFrame) is true if and only if
\* prevFrame or curFrame is within [first start, last end].
C4_ChangedIffInRange ==
    (op.kind = "changed" /\ Animated) =>
        (op.flag <=> (InRange(op.prevFrame) \/ InRange(op.frameNo)))

\* C4 as amended: changed(prevFrame, curFrame) is false if and only if both
\* frames are before the first start or both are after the last end; it is
\* true when a frame is within the range and also when the two frames lie
\* on opposite sides of it.
C4_ChangedUnlessSameSide ==
    (op.kind = "changed" /\ Animated) =>
        /\ op.flag <=> ~(\/ (Before(op.prevFrame) /\ Before(op.frameNo))
                         \/ (After(op.prevFrame) /\ After(op.frameNo)))
        /\ op.flag <=> \/ InRange(op.prevFrame) \/ InRange(op.frameNo)
                       \/ (Before(op.prevFrame) /\ After(op.frameNo))
                       \/ (After(op.prevFrame) /\ Before(op.frameNo))

C4_Witness ==
    /\ op.kind = "changed" /\ Animated
    /\ Before(op.prevFrame) /\ After(op.frameNo)
    /\ op.flag

\* C5: changed() is conservative: when it returns false the value at the
\* two frames is the same; a static Property reports false and its value at
\* every frame is its constant.
C5_ChangedConservative ==
    /\ (op.kind = "changed" /\ ~op.flag) =>
            RatEq(PropertyValue(prop, op.prevFrame).value,
                  PropertyValue(prop, op.frameNo).value)
    /\ (op.kind = "changed" /\ prop.isValue_) => ~op.flag
    /\ (op.kind = "value" /\ prop.isValue_) =>
            /\ prop.impl_.value_ \in Values
            /\ RatEq(op.result.value, RatOf(prop.impl_.value_))

C5_Witness ==
    /\ op.kind = "changed" /\ Animated /\ ~op.flag
    /\ op.prevFrame # op.frameNo
    /\ After(op.prevFrame)
    /\ front(Track).value_.start_ # back(Track).value_.end_

\* exactly one member of the union is constructed, the one isValue_ names
OneMember(p) ==
    /\ p.isValue_ <=> p.impl_.active = "value_"
    /\ ~p.isValue_ <=> p.impl_.active = "animation_"
    /\ p.isValue_ => p.impl_.animation_ = NullPtr
    /\ ~p.isValue_ => p.impl_.value_ = NoValue

\* C6: a Property holds exactly one of {constant, track}; no operation
\* turns an animated Property back into a static one; a move-constructed
\* Property has the kind of its source.
C6_OneWay ==
    [][/\ OneMember(prop')
       /\ (~isStatic(prop) => ~isStatic(prop'))
       /\ (op'.kind = "move" =>
              /\ isStatic(prop') = isStatic(prop)
              /\ isStatic(prop') = isStatic(from')
              /\ OneMember(from'))]_vars

C6_Witness ==
    /\ op.kind = "move" /\ Animated /\ Len(Track) = 2
    /\ ~from.isValue_ /\ from.impl_.animation_.null

(***************************************************************************)
(* Properties of SpecPath.                                                 *)
(***************************************************************************)
EqualCounts == Len(kf.start.mPoints) = Len(kf.end.mPoints)

C8_DegenerateSegments ==
    seg.called =>
        /\ (trim.mStart = trim.mEnd =>
                seg.result.start = 0 /\ seg.result.end = 0)
        /\ (Abs(trim.mStart - trim.mEnd) = 100 =>
                seg.result.start = 0 /\ seg.result.end = One)

C8_Witness ==
    /\ seg.called
    /\ trim.mStart = 0 /\ trim.mEnd = 100 /\ trim.mOffset = 36
    /\ seg.result.start = 0 /\ seg.result.end = One

\* an endpoint, after the offset is added, is past the path boundary
Wraps(x) == x < 0 \/ x > One
\* and is brought back into the path
Back(x) == IF x < 0 THEN x + One ELSE IF x > One THEN x - One ELSE x

ShiftedStart == trim.mStart * PctUnit + TrimOffset(trim.mOffset)
ShiftedEnd == trim.mEnd * PctUnit + TrimOffset(trim.mOffset)

\* C9: with 0 < |start - end| < 100%: when neither or both endpoints wrap
\* the result is (min, max) with start <= end; when exactly one wraps it is
\* (max, min) with start > end.
C9_LoopIffOneWraps ==
    (/\ seg.called
     /\ 0 < Abs(trim.mStart - trim.mEnd)
     /\ Abs(trim.mStart - trim.mEnd) < 100) =>
        LET s == Back(ShiftedStart)
            e == Back(ShiftedEnd)
        IN  IF Wraps(ShiftedStart) = Wraps(ShiftedEnd)
            THEN /\ seg.result.start = Min(s, e)
                 /\ seg.result.end = Max(s, e)
                 /\ seg.result.start <= seg.result.end
            ELSE /\ seg.result.start = Max(s, e)
                 /\ seg.result.end = Min(s, e)
                 /\ seg.result.start > seg.result.end

C9_Witness ==
    /\ seg.called
    /\ trim.mStart = 50 /\ trim.mEnd = 90 /\ trim.mOffset = 90
    /\ Wraps(ShiftedEnd) /\ ~Wraps(ShiftedStart)
    /\ seg.result.start = 75 * PctUnit /\ seg.result.end = 15 * PctUnit

Turns == (-MaxTurns) .. MaxTurns

\* C10 as stated: the offset is cyclic: for every start, end and offset d,
\* positive or negative, the segment for d is the segment for d + 360 k,
\* for every integer k.
C10_OffsetCyclic ==
    seg.called =>
        \A k \in Turns :
            TrimSegment(trim.mStart, trim.mEnd, trim.mOffset + 360 * k)
                = seg.result

SameSign(a, b) == (a >= 0 /\ b >= 0) \/ (a <= 0 /\ b <= 0)

\* an endpoint lands exactly on the path boundary once the offset is added
OnBoundary == ShiftedStart % One = 0 \/ ShiftedEnd % One = 0

\* C10 as amended: the offset is normalized by fmod to a fraction in (-1,1)
\* that has the sign of d; the segment for d is the segment for d + 360 k
\* when d and d + 360 k have the same sign, and also when their signs differ
\* unless an endpoint lands exactly on the path boundary.
C10_OffsetCyclicPerSign ==
    seg.called =>
        /\ -One < TrimOffset(trim.mOffset) /\ TrimOffset(trim.mOffset) < One
        /\ trim.mOffset >= 0 => TrimOffset(trim.mOffset) >= 0
        /\ trim.mOffset <= 0 => TrimOffset(trim.mOffset) <= 0
        /\ \A k \in Turns :
              (SameSign(trim.mOffset, trim.mOffset + 360 * k) \/ ~OnBoundary) =>
                  TrimSegment(trim.mStart, trim.mEnd, trim.mOffset + 360 * k)
                      = seg.result

C10_Witness ==
    /\ seg.called
    /\ trim.mStart = 10 /\ trim.mEnd = 50 /\ trim.mOffset = -396
    /\ seg.result.start = 0 /\ seg.result.end = 4 * (One \div 10)
    /\ TrimSegment(10, 50, -36) = seg.result
    /\ TrimSegment(10, 50, 324) # seg.result

(***************************************************************************)
(* Properties of SpecGrad.                                                 *)
(***************************************************************************)
SameLength == Len(grad.a) = Len(grad.b)

\* C11 as stated: for operands of equal length, (a + b) - b has the length
\* of a and equals a element by element.
C11_RoundTripExact ==
    (gop.kind = "addsub" /\ SameLength) =>
        /\ ~gop.result.oob
        /\ gop.result.g = grad.a

\* C11: for operands of equal length, (a + b) - b has the length of a and
\* each element equals a's up to the rounding of the two float operations:
\* it differs by at most one unit in the last place of the larger of
\* |a[i]| and |b[i]|, and not at all when a[i] + b[i] is itself a float.
C11_RoundTripWithinRounding ==
    (gop.kind = "addsub" /\ SameLength) =>
        /\ ~gop.result.oob
        /\ Len(gop.result.g) = Len(grad.a)
        /\ \A i \in 1 .. Len(grad.a) :
              LET a == grad.a[i]
                  b == grad.b[i]
                  r == gop.result.g[i]
              IN  /\ Abs(r - a) <= Ulp(Max(Abs(a), Abs(b)))
                  /\ (Fl(a + b) = a + b => r = a)

C11_Witness ==
    /\ gop.kind = "addsub" /\ Len(grad.a) = 2 /\ Len(grad.b) = 2
    /\ gop.result.g[1] # grad.a[1]
    /\ gop.result.g[2] = grad.a[2]
    /\ grad.b[2] # 0

\* C12: for operands of different lengths, a + b and a - b return the left
\* operand unchanged and read neither sequence past its end.
C12_LengthMismatchReturnsLeft ==
    (gop.kind \in {"add", "sub"} /\ ~SameLength) =>
        /\ gop.result.g = grad.a
        /\ ~gop.result.oob

C12_Witness ==
    /\ gop.kind = "sub"
    /\ Len(grad.a) = 2 /\ Len(grad.b) = 1
    /\ gop.result.g = grad.a
    /\ grad.b[1] # 0

(***************************************************************************)
(* Properties of SpecText.                                                 *)
(***************************************************************************)
InGetTextData == tdata.call.kind = "getTextData"
Documents == tlayer.mTextDocument
Animators == tlayer.mTextAnimator
ActiveDocument == Documents[tdata.call.document]
\* the record the last query added for character c - 1
NewRecord(c) == tdata.obj.charAnimPropList[tdata.call.before + c]
FastPath == TextLayerIsStatic(tlayer) \/ ~hasRange(tlayer)

\* C13: the active document of a query for frame f is the first document
\* in list order whose start frame is >= f, and the last document when no
\* document has a start frame >= f.
C13_ActiveDocument ==
    InGetTextData =>
        LET f == tdata.call.frameNo
            d == tdata.call.document
        IN  /\ d \in 1 .. Len(Documents)
            /\ tdata.obj.fontSize = Documents[d].mSize
            /\ IF \E k \in 1 .. Len(Documents) : Documents[k].mTime >= f
               THEN /\ Documents[d].mTime >= f
                    /\ \A j \in 1 .. (d - 1) : Documents[j].mTime < f
               ELSE d = Len(Documents)

C13_Witness ==
    /\ InGetTextData
    /\ Len(Documents) = 2
    /\ Documents[1].mTime = 0 /\ Documents[2].mTime = 5
    /\ tdata.call.frameNo = 5
    /\ tdata.call.document = 2
    /\ tdata.obj.fontSize = 16

RangeStartIndex(k) ==
    RangeIndex(Animators[k], Animators[k].mRangeStart, tdata.call.frameNo,
               tdata.call.textLength)
RangeEndIndex(k) ==
    RangeIndex(Animators[k], Animators[k].mRangeEnd, tdata.call.frameNo,
               tdata.call.textLength)

\* C14: for a range [rangeStart, rangeEnd) with rangeStart <= rangeEnd and
\* the character i on [i, i+1), the weight is 1 when the character is
\* inside the range, 0 when it is outside, and when it straddles one
\* boundary it is the covered fraction, strictly between 0 and 1:
\* rangeEnd - i on the left-partial side, i + 1 - rangeStart on the right.
C14_RangeWeight ==
    InGetTextData =>
        \A c \in 1 .. tdata.call.textLength :
        \A k \in 1 .. Len(Animators) :
            LET rs == RangeStartIndex(k)
                re == RangeEndIndex(k)
                lo == RatOf(c - 1)
                hi == RatOf(c)
                w  == tdata.call.progress[c][k]
            IN  RatLe(rs, re) =>
                  /\ (RatLe(rs, lo) /\ RatLe(hi, re) => RatEq(w, RatOf(1)))
                  /\ (RatLe(re, lo) \/ RatLe(hi, rs) => RatEq(w, RatOf(0)))
                  /\ (RatLe(rs, lo) /\ RatLt(lo, re) /\ RatLt(re, hi) =>
                         /\ RatEq(w, RatSub(re, lo))
                         /\ RatLt(RatOf(0), w) /\ RatLt(w, RatOf(1)))
                  /\ (RatLt(lo, rs) /\ RatLt(rs, hi) /\ RatLe(hi, re) =>
                         /\ RatEq(w, RatSub(hi, rs))
                         /\ RatLt(RatOf(0), w) /\ RatLt(w, RatOf(1)))

C14_Witness ==
    /\ InGetTextData
    /\ tdata.call.textLength = 3
    /\ Len(Animators) = 2
    /\ tdata.call.progress[1][1] = Rat(1, 4)
    /\ tdata.call.progress[2][1] = Rat(1, 2)
    /\ tdata.call.progress[3][1] = Rat(0, 1)
    /\ tdata.call.progress[2][2] = Rat(1, 1)

\* the Opacity value of an animator, when it animates opacity
OpacityOf(k) ==
    LET ps == Animators[k].mAnimatedProperties
    IN  {ps[j].value : j \in {j \in 1 .. Len(ps) : ps[j].type = "Opacity"}}

\* the sequential blend of opacity over the first k animators
RECURSIVE BlendOpacity(_, _)
BlendOpacity(c, k) ==
    IF k = 0 THEN CharAnimatedProperties.opacity
    ELSE LET w == tdata.call.progress[c][k]
         IN  IF RatLt(RatOf(0), w) /\ OpacityOf(k) # {}
             THEN RatLerp(BlendOpacity(c, k - 1),
                          RatOf(CHOOSE v \in OpacityOf(k) : TRUE), w)
             ELSE BlendOpacity(c, k - 1)

\* C15: every character's property is the left fold over the animators in
\* declaration order of lerp(running value, animator's value, animator's
\* weight), starting from the defaults / document values; an animator of
\* weight 1 replaces what the earlier animators contributed.
C15_OrderedFold ==
    InGetTextData =>
        \A c \in 1 .. tdata.call.textLength :
            LET n == Len(Animators) IN
            /\ NewRecord(c).opacity = BlendOpacity(c, n)
            /\ n = 0 => NewRecord(c) = DocumentRecord(ActiveDocument)
            /\ n > 0 =>
                 NewRecord(c) =
                   ApplyAnimator(
                     ApplyAnimators(DocumentRecord(ActiveDocument), Animators,
                                    1, n - 1, c - 1, tdata.call.textLength,
                                    tdata.call.frameNo),
                     Animators[n], c - 1, tdata.call.textLength,
                     tdata.call.frameNo)
            /\ \A k \in 1 .. n :
                 (/\ tdata.call.progress[c][k] = RatOf(1)
                  /\ \A j \in (k + 1) .. n :
                        ~RatLt(RatOf(0), tdata.call.progress[c][j])) =>
                    \A v \in OpacityOf(k) : NewRecord(c).opacity = RatOf(v)

\* swapping the two animators changes the record of character 0: a weight
\* strictly inside (0,1) after a weight 1, on different opacity values
C15_Witness ==
    /\ InGetTextData
    /\ Len(Animators) = 2
    /\ tdata.call.progress[1][1] = RatOf(1)
    /\ tdata.call.progress[1][2] = Rat(1, 4)
    /\ OpacityOf(1) = {50} /\ OpacityOf(2) = {0}
    /\ NewRecord(1).opacity = Rat(75, 2)
    /\ ApplyAnimators(DocumentRecord(ActiveDocument),
                      <<Animators[2], Animators[1]>>, 1, 2, 0,
                      tdata.call.textLength, tdata.call.frameNo).opacity
         = RatOf(50)

\* C16 as stated, read with the active document: on the fast path a query
\* produces one record whose stroke width, fill color and stroke color are
\* the document's.
C16_FastPathDocumentValues ==
    (InGetTextData /\ FastPath) =>
        /\ Len(tdata.obj.charAnimPropList) = tdata.call.before + 1
        /\ NewRecord(1).strokeWidth = RatOf(ActiveDocument.mStrokeWidth)
        /\ NewRecord(1).fillColor = ActiveDocument.mFillColor
        /\ NewRecord(1).strokeColor = ActiveDocument.mStrokeColor

\* C16: on the fast path (the layer is static, or no animator defines a
\* range selector) a query adds exactly one record, whatever the length of
\* the text.  The record starts from the active document's stroke width,
\* fill color and stroke color, which is the only document when the layer
\* is static, and every animator is applied to it with weight 1; it holds
\* the document's values when the layer has no animator.
C16_FastPathOneRecord ==
    (InGetTextData /\ FastPath) =>
        /\ tdata.call.textLength = 1
        /\ Len(tdata.obj.charAnimPropList) = tdata.call.before + 1
        /\ TextLayerIsStatic(tlayer) => tdata.call.document = 1
        /\ Animators = <<>> => NewRecord(1) = DocumentRecord(ActiveDocument)
        /\ \A k \in 1 .. Len(Animators) :
              tdata.call.progress[1][k] = RatOf(1)
        /\ NewRecord(1) =
             ApplyAnimators(DocumentRecord(ActiveDocument), Animators, 1,
                            Len(Animators), 0, 1, tdata.call.frameNo)
        /\ NewRecord(1).strokeColor = ActiveDocument.mStrokeColor

C16_Witness ==
    /\ InGetTextData /\ FastPath
    /\ Len(Animators) = 1
    /\ Len(Documents) = 2
    /\ tdata.call.document = 2
    /\ ActiveDocument.mText = 3
    /\ Len(tdata.obj.charAnimPropList) = tdata.call.before + 1
    /\ NewRecord(1).strokeWidth = RatOf(10)
    /\ ActiveDocument.mStrokeWidth = 6

(***************************************************************************)
(* Properties of SpecUnicode.                                              *)
(***************************************************************************)
\* the bytes of one well-formed sequence that starts at input[i]: 0 when
\* the first byte is an invalid lead byte or a stray continuation byte, a
\* continuation byte is missing or wrong, the sequence is cut short by the
\* end of the input, or the encoding is overlong
SequenceLength(input, i) ==
    LET d == input[i]
        n == CASE d < 128 -> 1
               [] 194 <= d /\ d < 224 -> 2
               [] 224 <= d /\ d < 240 -> 3
               [] 240 <= d /\ d < 245 -> 4
               [] OTHER -> 0
    IN  IF n = 0 \/ i + n - 1 > Len(input) THEN 0
        ELSE IF \E j \in (i + 1) .. (i + n - 1) : ~(128 <= input[j] /\ input[j] < 192)
        THEN 0
        ELSE IF (d = 224 /\ input[i + 1] < 160) \/ (d = 240 /\ input[i + 1] < 144)
        THEN 0
        ELSE n

RECURSIVE WellFormedFrom(_, _)
WellFormedFrom(input, i) ==
    IF i > Len(input) THEN TRUE
    ELSE LET n == SequenceLength(input, i)
         IN  n # 0 /\ WellFormedFrom(input, i + n)

WellFormed(input) == WellFormedFrom(input, 1)

\* C17: for every input that holds an invalid UTF-8 sequence (invalid lead
\* byte, stray or missing continuation byte, overlong encoding, truncated
\* multi-byte sequence) convertToUnicode returns false and does not throw.
C17_InvalidInputReturnsFalse ==
    (uop.kind = "convert" /\ ~WellFormed(uop.input)) =>
        uop.result.status = "false"

Registered == {k \in 1 .. Len(fontdb.mFonts) :
                  fontdb.mFonts[k].mFontName = fop.fname}
\* the glyph entries that match the last load call
Matching ==
    {k \in 1 .. Len(fontdb.mChars) :
        /\ fontdb.mChars[k].mCh # <<>>
        /\ fontdb.mChars[k].mCh[1] = fop.charCode
        /\ IntSize(fontdb.mChars[k].mSize) = fop.size
        /\ \E f \in Registered :
              /\ \A j \in Registered : f <= j
              /\ fontdb.mChars[k].mFontFamily = fontdb.mFonts[f].mFontFamily}

AllGlyphsHaveText ==
    \A k \in 1 .. Len(fontdb.mChars) : fontdb.mChars[k].mCh # <<>>

FirstMatchOrNull ==
    /\ fop.result.kind \in {"null", "entry"}
    /\ fop.result.kind = "null" <=> Matching = {}
    /\ fop.result.kind = "entry" =>
          /\ fop.result.entry \in Matching
          /\ \A j \in Matching : fop.result.entry <= j

\* C19: load returns null when the glyph table is empty, the font name is
\* not registered or no glyph entry matches, and otherwise the first entry
\* in table order whose first code point is charCode, whose integer size
\* is size and whose family is the one registered for the font name.
C19_LoadFirstMatchOrNull ==
    fop.kind = "load" => FirstMatchOrNull

\* the same for the tables in which every glyph has a text
C19_LoadWithTexts ==
    (fop.kind = "load" /\ AllGlyphsHaveText) => FirstMatchOrNull

(***************************************************************************)
(* Properties of SpecObject.                                               *)
(***************************************************************************)
\* C20: after setName(n) with n not null, name() is a string equal to n; a
\* name of fewer than 14 bytes is in the inline buffer and no heap copy is
\* made, a name of 14 bytes or more is in a heap copy; name() reads the
\* buffer exactly when the short-string flag is set and the heap copy
\* otherwise; setName(null) leaves the name unchanged.
C20_NameRoundTrip ==
    /\ name(object).s = oop.named
    /\ name(object).from = (IF object._shortString THEN "buffer" ELSE "heap")
    /\ oop.kind = "name" => oop.result = name(object)
    /\ oop.kind = "setName" =>
         /\ oop.arg.null => object = oop.before
         /\ (~oop.arg.null /\ Len(oop.arg.s) < maxShortStringLength) =>
               /\ object._shortString
               /\ object.heap = oop.before.heap
               /\ name(object) = [from |-> "buffer", s |-> oop.arg.s]
         /\ (~oop.arg.null /\ Len(oop.arg.s) >= maxShortStringLength) =>
               /\ ~object._shortString
               /\ object.heap = Append(oop.before.heap, oop.arg.s)
               /\ name(object) = [from |-> "heap", s |-> oop.arg.s]

C20_Witness ==
    /\ oop.kind = "setName"
    /\ oop.sets = 2
    /\ Len(oop.arg.s) = 13
    /\ ~oop.before._shortString
    /\ Len(name(oop.before).s) = 14
    /\ name(object) = [from |-> "buffer", s |-> oop.arg.s]
    /\ object.buffer[1] # oop.before.buffer[1]

(***************************************************************************)
(* Properties of SpecTrim: the range of the endpoints.                     *)
(***************************************************************************)
\* C27: for start and end percentages in [0,100] and every offset,
\* positive, zero or negative, segment() returns both endpoints within
\* [0,1], and the assertions start >= 0 and end >= 0 of noloop() and
\* loop() hold.
C27_EndpointsInUnitRange ==
    seg.called =>
        /\ seg.result.asserts
        /\ 0 <= seg.result.start /\ seg.result.start <= One
        /\ 0 <= seg.result.end /\ seg.result.end <= One

\* 10% .. 50% moved back by a quarter turn wraps the start: (0.85, 0.25)
C27_Witness ==
    /\ seg.called
    /\ trim.mOffset < 0
    /\ trim.mStart * PctUnit + TrimOffset(trim.mOffset) < 0
    /\ seg.result.start = 85 * PctUnit
    /\ seg.result.end = 25 * PctUnit

(***************************************************************************)
(* Properties of SpecPathAny.                                              *)
(***************************************************************************)
\* C28: lerp and toPath never read a control point at an index at or
\* beyond the point count they iterate over (for lerp the smaller of the
\* two counts), for every non-empty pair of point lists, whatever their
\* counts.
C28_NoReadPastEnd ==
    vpath.call \in {"lerp", "toPath"} => ~vpath.path.oob

\* with whole cubics (3k+1 points) on both sides, equal or not, no read
\* passes the end
C28_WholeCubicsStayInside ==
    /\ vpath.call \in {"lerp", "toPath"}
    /\ Len(kf.start.mPoints) % 3 = 1
    /\ Len(kf.end.mPoints) % 3 = 1
    => ~vpath.path.oob

(***************************************************************************)
(* Properties of SpecLayer.                                                *)
(***************************************************************************)
\* v is the rational x with its fraction dropped
TruncatedTowardZero(v, x) ==
    IF x.n >= 0
    THEN RatLe(RatOf(v), x) /\ RatLt(x, RatOf(v + 1))
    ELSE RatLe(x, RatOf(v)) /\ RatLt(RatOf(v - 1), x)

\* C21: without an extra block or with a static time-remap property,
\* timeRemap(f) is (f - startFrame) / timeStretch truncated toward zero;
\* with an animated time-remap track it is the owning Composition's
\* frameAtTime(remap value at f) / timeStretch truncated toward zero, and
\* the start frame is not subtracted.
C21_TimeRemap ==
    lop.kind = "timeRemap" =>
        LET f  == lop.frameNo
            ts == lnode.mTimeStreatch
        IN  IF lnode.mExtra = Null \/ lnode.mExtra[1].mTimeRemap.isValue_
            THEN /\ lop.result.kind = "value"
                 /\ TruncatedTowardZero(
                        lop.result.v,
                        Rat((f - lnode.mStartFrame) * ts.d, ts.n))
            ELSE lnode.mExtra[1].mCompRef # Null =>
                 /\ lop.result.kind = "value"
                 /\ TruncatedTowardZero(
                        lop.result.v,
                        Rat(frameAtTime(
                                lnode.mExtra[1].mCompRef[1],
                                PropertyValue(lnode.mExtra[1].mTimeRemap, f).value)
                              * ts.d, ts.n))

\* frame 0 of a layer that starts at 3 and is stretched by 2 is -1, and an
\* animated remap of 1/2 s in a composition of 5 frames at 3 frames per
\* second is frame 2, whatever the start frame
C21_Witness ==
    /\ lop.kind = "timeRemap"
    /\ lnode.mStartFrame = 3
    /\ \/ /\ lnode.mExtra = Null
          /\ lnode.mTimeStreatch = Rat(2, 1)
          /\ lop.frameNo = 0
          /\ lop.result = Answer(0 - 1)
       \/ /\ lnode.mExtra # Null
          /\ lnode.mExtra[1].mTimeRemap = AnimatedProperty(<<Frame(0, 4, "linear", 0, 2)>>)
          /\ lnode.mExtra[1].mCompRef = <<Composition(0, 5, 3)>>
          /\ lnode.mTimeStreatch = Rat(1, 2)
          /\ lop.frameNo = 1
          /\ lop.result = Answer(4)

\* C22: the first extra() call allocates the block, every later extra()
\* call returns that block without allocating again or resetting a field,
\* and solidColor, asset, fontDB, timeRemap, matrix and opacity never
\* allocate it.
C22_ExtraAllocatedOnce ==
    /\ lnode.made <= 1
    /\ lnode.mExtra = Null <=> lnode.made = 0
    /\ lnode.mExtra # Null => lnode.mExtra[1].block = 1
    /\ lop.kind = "extra" =>
         /\ lop.result = Answer(1)
         /\ lop.before.mExtra = Null =>
               lnode = [lop.before EXCEPT !.mExtra = <<Extra(1)>>, !.made = 1]
         /\ lop.before.mExtra # Null => lnode = lop.before
    /\ lop.kind \in {"solidColor", "asset", "fontDB", "timeRemap", "matrix",
                     "opacity"} => lnode = lop.before

C22_Witness ==
    /\ lop.kind = "extra"
    /\ lop.before.mExtra # Null
    /\ lop.before.mExtra[1].mSolidColor = Color(1, 0, 0)
    /\ lop.before.mExtra[1].mCompRef # Null
    /\ lnode = lop.before

(***************************************************************************)
(* Properties of SpecRepeater.                                             *)
(***************************************************************************)
\* C24: at every frame the copy count the Repeater exposes does not exceed
\* maxCopies(), whatever count was requested.
C24_CopiesWithinMax ==
    rop.kind = "copies" => RatLe(rop.result, RatOf(maxCopies(repeater)))

\* copies(frameNo) is the value of mCopies at the frame, whatever
\* mMaxCopies holds
C24_CopiesIsRequestedValue ==
    rop.kind = "copies" =>
        RatEq(rop.result, PropertyValue(repeater.mCopies, rop.frameNo).value)

(***************************************************************************)
(* Properties of SpecText: a TextData used for several queries.            *)
(***************************************************************************)
\* C25: after any sequence of getTextData calls on the same TextData, the
\* per-character list holds exactly the records of the latest query: as
\* many as the active document's text has characters, or one on the fast
\* path, and none left over from earlier queries.
C25_ListIsLatestQuery ==
    InGetTextData =>
        Len(tdata.obj.charAnimPropList) =
            (IF FastPath THEN 1 ELSE ActiveDocument.mText)

\* every query appends its records behind those the list already held
C25_ListGrowsByQuery ==
    InGetTextData =>
        Len(tdata.obj.charAnimPropList) =
            tdata.call.before + (IF FastPath THEN 1 ELSE ActiveDocument.mText)

(***************************************************************************)
(* Properties of SpecObject: the heap copies at destruction.               *)
(***************************************************************************)
\* C26: for any sequence of setName calls, of short and long names, followed
\* by the destruction of the node, every heap copy made is freed exactly
\* once and nothing that is not a live heap copy is freed.
C26_HeapCopiesFreedOnce ==
    oop.kind = "destroyed" =>
        /\ \A p \in 1 .. Len(object.heap) :
              Cardinality({i \in 1 .. Len(oop.freed) : oop.freed[i] = p}) = 1
        /\ \A i \in 1 .. Len(oop.freed) : oop.freed[i] \in 1 .. Len(object.heap)

\* the destructor frees at most one address, the copy made last, and only
\* when the last name set was a long one
C26_OnlyLastCopyFreed ==
    oop.kind = "destroyed" =>
        /\ Len(oop.freed) <= 1
        /\ \A i \in 1 .. Len(oop.freed) :
              /\ oop.freed[i] = Len(object.heap)
              /\ oop.freed[i] >= 1
              /\ Len(oop.named) >= maxShortStringLength
        /\ Len(oop.named) >= maxShortStringLength => oop.freed = <<Len(object.heap)>>

(***************************************************************************)
(* Properties of SpecUnicode: compare.                                     *)
(***************************************************************************)
IsPrefix(a, b) == Len(a) <= Len(b) /\ \A i \in 1 .. Len(a) : a[i] = b[i]

\* C29: a.compare(b) is 0 exactly when the two texts have the same length
\* and the same code points, it is symmetric, it reads neither text past
\* its end, and so two documents with different texts are never equal.
C29_CompareIsEquality ==
    uop.kind = "compare" =>
        /\ ~uop.result.oob
        /\ uop.result.result = 0 <=>
              uni.mUnicodeText = uop.input.mUnicodeText
        /\ uop.result.result = uop.reverse.result
        /\ uop.equal => uni.mUnicodeText = uop.input.mUnicodeText

\* compare tests whether the own text is a prefix of the other: it reads
\* the other text past its end exactly when the own text is longer and
\* agrees on the whole of the other, and otherwise returns 0 exactly for a
\* prefix
C29_CompareIsPrefixTest ==
    uop.kind = "compare" =>
        /\ uop.result.oob =>
              /\ uni.mUnicodeLength > uop.input.mUnicodeLength
              /\ IsPrefix(uop.input.mUnicodeText, uni.mUnicodeText)
        /\ ~uop.result.oob =>
              (uop.result.result = 0 <=>
                  IsPrefix(uni.mUnicodeText, uop.input.mUnicodeText))

(***************************************************************************)
(* Properties of SpecWeight.                                               *)
(***************************************************************************)
\* C30: every weight used as an interpolation factor lies in (0, 1], for
\* all range start and end values, inverted ranges and ranges outside the
\* text included, and every character index; a weight that is not > 0
\* leaves the character's record as it was.
C30_UsedWeightInUnitRange ==
    wop.kind = "weight" =>
        /\ \A w \in wop.used : RatLt(RatOf(0), w) /\ RatLe(w, RatOf(1))
        /\ RatLe(wop.progress, RatOf(1))
        /\ RatLt(RatOf(0), wop.progress) => wop.used = {wop.progress}
        /\ wop.used = {} => wop.animProp = CharAnimatedProperties

\* 75% .. 150% of a text of 3 characters is [2.25, 4.5): the last character
\* gets 0.75
C30_Witness ==
    /\ wop.kind = "weight"
    /\ selector.textAnim.mRangeUnit = Percentage
    /\ selector.textLength = 3
    /\ PropertyValue(selector.textAnim.mRangeEnd, 0).value = RatOf(150)
    /\ wop.i = 2
    /\ wop.used = {Rat(3, 4)}
    /\ wop.animProp # CharAnimatedProperties

=============================================================================
